---- MODULE Spec2Model ----
(***************************************************************************)
(* Header chain engine of electrum-meowcoin (electrum/blockchain.py).      *)
(*                                                                         *)
(* Bytes are modelled in cells of 40 bytes: an 80-byte header is 2 cells,  *)
(* a 120-byte header or stored record is 3 cells.  A cell carries the      *)
(* fields the code reads from it: bit 8 of the version and the prev hash   *)
(* when it is the first cell of a header, bits and the 32-bit nonce when   *)
(* it is the second, the 64-bit nonce when it is the third.                *)
(*                                                                         *)
(* Heights are scaled: the 2016-block spacing is 3, the checkpoint region  *)
(* is heights 0..8, AuxPOW activates at height 10.                         *)
(***************************************************************************)
EXTENDS Integers, Sequences, FiniteSets, TLC

\* ------------------------------------------------------------------------
\* Network parameters (electrum/constants.py, MeowcoinMainnet), scaled
\* ------------------------------------------------------------------------
TESTNET == FALSE

DGW_CHECKPOINTS_SPACING == 3

DGW_CHECKPOINTS_START == 1 * DGW_CHECKPOINTS_SPACING

NUM_LEGACY_CHECKPOINTS == 1

NUM_DGW_CHECKPOINTS == 2

KawpowActivationHeight == 1

nDGWActivationBlock == 1

AuxPowActivationHeight == 10

POW_SAMPLE_PERIOD == 10

HEADER_SIZE == 3

LEGACY_HEADER_SIZE == 2

max_legacy_checkpoint ==
    IF NUM_LEGACY_CHECKPOINTS * DGW_CHECKPOINTS_SPACING - 1 > 0
    THEN NUM_LEGACY_CHECKPOINTS * DGW_CHECKPOINTS_SPACING - 1 ELSE 0

max_checkpoint ==
    IF DGW_CHECKPOINTS_START + NUM_DGW_CHECKPOINTS * DGW_CHECKPOINTS_SPACING - 1 > 0
    THEN DGW_CHECKPOINTS_START + NUM_DGW_CHECKPOINTS * DGW_CHECKPOINTS_SPACING - 1
    ELSE 0

\* ------------------------------------------------------------------------
\* Bounds of the model
\* ------------------------------------------------------------------------
MaxHeight == 12

MaxOps == 3

MaxInst == 3

MaxChunkLen == 2

\* ------------------------------------------------------------------------
\* Hashes, cells, headers
\* ------------------------------------------------------------------------
\* A hash is <<leading limb, the cells hashed>>; '00'*32 is the empty tuple.
ZeroHash == << >>

\* A hash no header has (a server's made-up prev hash).
BogusHash == <<0, << >> >>

ZeroCell == [v8 |-> FALSE, prev |-> ZeroHash, bits |-> 0, nonce |-> 0]

CellA(aux, prev) == [v8 |-> aux, prev |-> prev, bits |-> 0, nonce |-> 0]

CellB(bits, nonce) == [v8 |-> FALSE, prev |-> ZeroHash, bits |-> bits, nonce |-> nonce]

CellC(nonce) == [v8 |-> FALSE, prev |-> ZeroHash, bits |-> 0, nonce |-> nonce]

\* Wire forms: an extended (KawPow/MeowPow) header, and a legacy or AuxPOW one.
ExtBytes(prev, bits, nonce) == <<CellA(FALSE, prev), CellB(bits, 0), CellC(nonce)>>

LegBytes(aux, prev, bits, nonce) == <<CellA(aux, prev), CellB(bits, nonce)>>

\* A header dict: the cells it serializes to, and block_height.
None == [cells |-> << >>, block_height |-> -1]

IsAuxAt(v8, height) == v8 /\ height >= AuxPowActivationHeight

deserialize_header(s, height) ==
    IF Len(s) = HEADER_SIZE
    THEN IF IsAuxAt(s[1].v8, height) /\ s[3] = ZeroCell
         THEN [cells |-> SubSeq(s, 1, 2), block_height |-> height]
         ELSE [cells |-> s, block_height |-> height]
    ELSE [cells |-> s, block_height |-> height]

serialize_header(h) == h.cells

\* Leading limb of a digest: the nonce decides how small the hash is.
Limb(nonce) == 8 * nonce + 1

\* Timestamps follow heights here: a header below KawpowActivationHeight has
\* an x16r-era timestamp (80 bytes hashed), one at or above it a KawPow or
\* MeowPow one (120 bytes hashed).
hash_header(h) ==
    IF h = None THEN ZeroHash
    ELSE IF IsAuxAt(h.cells[1].v8, h.block_height)
              \/ h.block_height < KawpowActivationHeight
              \/ Len(h.cells) < HEADER_SIZE
         THEN <<Limb(h.cells[2].nonce), SubSeq(serialize_header(h), 1, 2)>>
         ELSE <<Limb(h.cells[3].nonce), serialize_header(h)>>

block_hash_as_num(hash) == IF hash = ZeroHash THEN 0 ELSE hash[1]

\* Compact bits 1 and 2 stand for a hard and an easy target.
TargetOfBits(bits) == 8 * bits

BitsOfTarget(target) == target \div 8

HASH_SPACE == 32

WorkOfTarget(target) == ((HASH_SPACE - target - 1) \div (target + 1)) + 1

\* ------------------------------------------------------------------------
\* Bundled checkpoints (checkpoints.json, checkpoints_dgw.json)
\* ------------------------------------------------------------------------
CHUNK_SIZE == 3

KAWPOW_RESET_START == 1

MEOWPOW_RESET_START == 7

DGW_PASTBLOCKS == 1

MAX_TARGET == 16

KAWPOW_LIMIT == 8

MEOWPOW_LIMIT == 8

InKawpowReset(height) ==
    height >= KAWPOW_RESET_START /\ height < KAWPOW_RESET_START + DGW_PASTBLOCKS

InMeowpowReset(height) ==
    height >= MEOWPOW_RESET_START /\ height < MEOWPOW_RESET_START + DGW_PASTBLOCKS

\* The chain the checkpoints were taken from.
CheckpointedBits(height) ==
    IF InKawpowReset(height) \/ InMeowpowReset(height) THEN 1 ELSE 2

CheckpointedChain[h \in 0..max_checkpoint] ==
    IF h = 0 THEN LegBytes(FALSE, ZeroHash, CheckpointedBits(0), 0)
    ELSE ExtBytes(hash_header(deserialize_header(CheckpointedChain[h - 1], h - 1)),
                  CheckpointedBits(h), 0)

CheckpointedHash(h) == hash_header(deserialize_header(CheckpointedChain[h], h))

GENESIS == CheckpointedHash(0)

\* CHECKPOINTS[index] = (hash of the last header of the chunk, its target)
CHECKPOINTS ==
    [index \in 0..(NUM_LEGACY_CHECKPOINTS - 1) |->
        <<CheckpointedHash((index + 1) * CHUNK_SIZE - 1), MAX_TARGET>>]

\* DGW_CHECKPOINTS[index][0 or 1] = (hash, target) of a window's first and last header
DGW_CHECKPOINTS ==
    [index \in 0..(NUM_DGW_CHECKPOINTS - 1) |->
        [k \in 0..1 |->
            <<CheckpointedHash(DGW_CHECKPOINTS_START + index * DGW_CHECKPOINTS_SPACING
                               + k * (DGW_CHECKPOINTS_SPACING - 1)),
              MAX_TARGET>>]]

\* ------------------------------------------------------------------------
\* The world: chain instances, header files, the registry, the work cache
\* ------------------------------------------------------------------------
VARIABLES
    chains,       \* instance -> its fields (parent 0 is None)
    files,        \* path -> the file's records, each HEADER_SIZE cells
    blockchains,  \* the registry: forkpoint hash -> instance
    cache,        \* _CHAINWORK_CACHE: hash -> work
    pc,           \* where the running operation is: idle, or in swap_with_parent
    last          \* the last completed operation and its result

vars == <<chains, files, blockchains, cache, pc, last>>

World == [chains |-> chains, files |-> files, reg |-> blockchains, cache |-> cache]

Insts == 1..MaxInst

NoChain == [live |-> FALSE, forkpoint |-> 0, parent |-> 0, fhash |-> ZeroHash,
            phash |-> ZeroHash, size |-> 0]

\* Results that stand for a raised exception.
MissingHeader == <<-1, << >> >>

Raised == <<-2, << >> >>

RaisedHeader == [cells |-> << >>, block_height |-> -2]

IsErr(x) == x = MissingHeader \/ x = Raised

MainPath == <<0, ZeroHash, ZeroHash>>

path(W, c) ==
    IF W.chains[c].parent = 0 THEN MainPath
    ELSE <<W.chains[c].forkpoint, W.chains[c].phash, W.chains[c].fhash>>

FileExists(W, p) == p \in DOMAIN W.files

FileSize(W, p) == IF FileExists(W, p) THEN Len(W.files[p]) ELSE 0

size(W, c) == W.chains[c].size

height(W, c) == W.chains[c].forkpoint + size(W, c) - 1

update_size(W, c) ==
    [W EXCEPT !.chains[c].size = FileSize(W, path(W, c))]

ZeroRecord == <<ZeroCell, ZeroCell, ZeroCell>>

RECURSIVE read_header(_, _, _)
read_header(W, c, h) ==
    IF h < 0 THEN None
    ELSE IF h < W.chains[c].forkpoint
    THEN IF W.chains[c].parent = 0 THEN RaisedHeader
         ELSE read_header(W, W.chains[c].parent, h)
    ELSE IF h > height(W, c) THEN None
    ELSE IF ~FileExists(W, path(W, c)) THEN RaisedHeader
    ELSE LET delta == h - W.chains[c].forkpoint
             f == W.files[path(W, c)]
         IN IF delta + 1 > Len(f) THEN RaisedHeader
            ELSE IF f[delta + 1] = ZeroRecord THEN None
            ELSE LET r == f[delta + 1]
                     s == IF h >= AuxPowActivationHeight /\ r[1].v8 /\ r[3] = ZeroCell
                          THEN SubSeq(r, 1, LEGACY_HEADER_SIZE) ELSE r
                 IN deserialize_header(s, h)

is_dgw_height_checkpoint(h) ==
    IF h < DGW_CHECKPOINTS_START THEN -1
    ELSE IF h > max_checkpoint THEN -1
    ELSE IF h % DGW_CHECKPOINTS_SPACING = 0 THEN 0
    ELSE IF h % DGW_CHECKPOINTS_SPACING = DGW_CHECKPOINTS_SPACING - 1 THEN 1
    ELSE -1

DgwIndex(h) ==
    (h \div DGW_CHECKPOINTS_SPACING) - (DGW_CHECKPOINTS_START \div DGW_CHECKPOINTS_SPACING)

\* get_hash that treats height 0 as it treats height -1
get_hash_zero_genesis(W, c, h) ==
    IF h <= 0 THEN ZeroHash
    ELSE IF h <= max_legacy_checkpoint /\ (h + 1) % CHUNK_SIZE = 0
    THEN CHECKPOINTS[h \div CHUNK_SIZE][1]
    ELSE IF is_dgw_height_checkpoint(h) # -1
    THEN DGW_CHECKPOINTS[DgwIndex(h)][is_dgw_height_checkpoint(h)][1]
    ELSE IF read_header(W, c, h) = None THEN MissingHeader
    ELSE IF read_header(W, c, h) = RaisedHeader THEN Raised
    ELSE hash_header(read_header(W, c, h))

get_hash(W, c, h) ==
    IF h = -1 THEN ZeroHash
    ELSE IF h = 0 THEN GENESIS
    ELSE IF h <= max_legacy_checkpoint /\ (h + 1) % CHUNK_SIZE = 0
    THEN CHECKPOINTS[h \div CHUNK_SIZE][1]
    ELSE IF is_dgw_height_checkpoint(h) # -1
    THEN DGW_CHECKPOINTS[DgwIndex(h)][is_dgw_height_checkpoint(h)][1]
    ELSE LET header == read_header(W, c, h)
         IN IF header = None THEN MissingHeader
            ELSE IF header = RaisedHeader THEN Raised
            ELSE hash_header(header)

check_hash(W, c, h, header_hash) == header_hash = get_hash(W, c, h)

\* ------------------------------------------------------------------------
\* Targets and chain-work
\* ------------------------------------------------------------------------
NotEnoughHeaders == -1

TargetRaised == -2

header_bits(h) == h.cells[2].bits

header_prev(h) == h.cells[1].prev

\* The retarget engines are reached only for a height above the chain's tip
\* that is neither a sentinel nor in a reset window.
\* get_target without its two difficulty-reset branches
get_target_unreset(W, c, h, chain) ==
    IF TESTNET THEN 0
    ELSE IF h < nDGWActivationBlock THEN CHECKPOINTS[h \div CHUNK_SIZE][2]
    ELSE IF is_dgw_height_checkpoint(h) # -1
    THEN DGW_CHECKPOINTS[DgwIndex(h)][is_dgw_height_checkpoint(h)][2]
    ELSE IF h <= height(W, c)
    THEN LET header == read_header(W, c, h)
         IN IF header = None \/ header = RaisedHeader THEN TargetRaised
            ELSE TargetOfBits(header_bits(header))
    ELSE NotEnoughHeaders

get_target(W, c, h, chain) ==
    IF TESTNET THEN 0
    ELSE IF h < nDGWActivationBlock THEN CHECKPOINTS[h \div CHUNK_SIZE][2]
    ELSE IF is_dgw_height_checkpoint(h) # -1
    THEN DGW_CHECKPOINTS[DgwIndex(h)][is_dgw_height_checkpoint(h)][2]
    ELSE IF InKawpowReset(h) THEN KAWPOW_LIMIT
    ELSE IF InMeowpowReset(h) THEN MEOWPOW_LIMIT
    ELSE IF h <= height(W, c)
    THEN LET header == read_header(W, c, h)
         IN IF header = None \/ header = RaisedHeader THEN TargetRaised
            ELSE TargetOfBits(header_bits(header))
    ELSE NotEnoughHeaders

\* work of the header at h, or -1 when get_target raises
chainwork_of_header_at_height(W, c, h) ==
    LET target == get_target(W, c, h, << >>)
    IN IF target < 0 THEN -1 ELSE WorkOfTarget(target)

\* sum of the work of heights lo..hi, or -1 when one of them raises
RECURSIVE WorkOfRange(_, _, _, _)
WorkOfRange(W, c, lo, hi) ==
    IF lo > hi THEN 0
    ELSE LET w == chainwork_of_header_at_height(W, c, lo)
             rest == WorkOfRange(W, c, lo + 1, hi)
         IN IF w < 0 \/ rest < 0 THEN -1 ELSE w + rest

\* the first loop of get_chainwork: the highest cached boundary at or below
\* cached_height; -2 when get_hash raises
RECURSIVE FindCached(_, _, _)
FindCached(W, c, cached_height) ==
    LET hh == get_hash(W, c, cached_height)
    IN IF IsErr(hh) THEN -2
       ELSE IF hh \in DOMAIN W.cache THEN cached_height
       ELSE IF cached_height <= -1 THEN cached_height
       ELSE FindCached(W, c, cached_height - CHUNK_SIZE)

\* _CHAINWORK_CACHE[key] = total
CachePut(W, key, total) ==
    [W EXCEPT !.cache = [k \in DOMAIN W.cache \cup {key} |->
                            IF k = key THEN total ELSE W.cache[k]]]

\* the second loop: fill the cache chunk by chunk up to last_retarget
RECURSIVE FillCache(_, _, _, _, _)
FillCacheChunk(W, c, cached_height, last_retarget, running_total, work_in_chunk, key) ==
    IF work_in_chunk < 0 \/ IsErr(key)
    THEN [ok |-> FALSE, total |-> 0, cache |-> W.cache]
    ELSE FillCache(CachePut(W, key, running_total + work_in_chunk), c,
                   cached_height + CHUNK_SIZE, last_retarget,
                   running_total + work_in_chunk)

FillCache(W, c, cached_height, last_retarget, running_total) ==
    IF cached_height >= last_retarget
    THEN [ok |-> TRUE, total |-> running_total, cache |-> W.cache]
    ELSE FillCacheChunk(W, c, cached_height, last_retarget, running_total,
                        WorkOfRange(W, c, cached_height + 1, cached_height + CHUNK_SIZE),
                        get_hash(W, c, cached_height + CHUNK_SIZE))

\* the return of get_chainwork: the cached total plus the work after the
\* last boundary
ChainworkResult(filled, partial) ==
    IF ~filled.ok \/ partial < 0
    THEN [ok |-> FALSE, work |-> 0, cache |-> filled.cache]
    ELSE [ok |-> TRUE, work |-> filled.total + partial, cache |-> filled.cache]

ChainworkFrom(W, c, h, last_retarget, cached_height, cached_hash) ==
    IF cached_height < -1 \/ cached_hash \notin DOMAIN W.cache
    THEN [ok |-> FALSE, work |-> 0, cache |-> W.cache]
    ELSE ChainworkResult(FillCache(W, c, cached_height, last_retarget, W.cache[cached_hash]),
                         WorkOfRange(W, c, last_retarget + 1, h))

ChainworkSearch(W, c, h, last_retarget, cached_height) ==
    ChainworkFrom(W, c, h, last_retarget, cached_height,
                  IF cached_height < -1 THEN Raised ELSE get_hash(W, c, cached_height))

\* get_chainwork(height): [ok, work, cache]; ok is FALSE when it raises
get_chainwork_at(W, c, h) ==
    ChainworkSearch(W, c, h, (h \div CHUNK_SIZE) * CHUNK_SIZE - 1,
                    FindCached(W, c, (h \div CHUNK_SIZE) * CHUNK_SIZE - 1))

HeightOrZero(h) == IF h > 0 THEN h ELSE 0

get_chainwork(W, c) == get_chainwork_at(W, c, HeightOrZero(height(W, c)))

\* ------------------------------------------------------------------------
\* Header verification
\* ------------------------------------------------------------------------
\* expected_header_hash = None
NoExpected == MissingHeader

\* verify_header without its proof-of-work comparison
verify_header_unproved(header, prev_hash, target, expected_header_hash, skip_bits_check) ==
    IF prev_hash # header.cells[1].prev THEN "prev hash mismatch"
    ELSE IF ~skip_bits_check /\ ~IsAuxAt(header.cells[1].v8, header.block_height)
            /\ BitsOfTarget(target) # header.cells[2].bits
    THEN "bits mismatch"
    ELSE "ok"

\* verify_header without its comparison with the expected header hash
verify_header_unanchored(header, prev_hash, target, expected_header_hash, skip_bits_check) ==
    IF prev_hash # header.cells[1].prev THEN "prev hash mismatch"
    ELSE IF TESTNET THEN "ok"
    ELSE IF IsAuxAt(header.cells[1].v8, header.block_height) THEN "ok"
    ELSE IF header.block_height > max_checkpoint
            /\ header.block_height % POW_SAMPLE_PERIOD # 0
    THEN "ok"
    ELSE IF ~skip_bits_check /\ BitsOfTarget(target) # header.cells[2].bits
    THEN "bits mismatch"
    ELSE IF block_hash_as_num(hash_header(header)) > target
    THEN "insufficient proof of work"
    ELSE "ok"

\* verify_header that compares the work before the expected hash
verify_header_work_first(header, prev_hash, target, expected_header_hash, skip_bits_check) ==
    IF prev_hash # header_prev(header) THEN "prev hash mismatch"
    ELSE IF TESTNET THEN "ok"
    ELSE IF IsAuxAt(header.cells[1].v8, header.block_height)
    THEN IF expected_header_hash # NoExpected /\ expected_header_hash # hash_header(header)
         THEN "hash mismatch" ELSE "ok"
    ELSE IF header.block_height > max_checkpoint
            /\ header.block_height % POW_SAMPLE_PERIOD # 0
    THEN "ok"
    ELSE IF ~skip_bits_check /\ BitsOfTarget(target) # header_bits(header)
    THEN "bits mismatch"
    ELSE IF block_hash_as_num(hash_header(header)) > target
    THEN "insufficient proof of work"
    ELSE IF expected_header_hash # NoExpected /\ expected_header_hash # hash_header(header)
    THEN "hash mismatch"
    ELSE "ok"

verify_header(header, prev_hash, target, expected_header_hash, skip_bits_check) ==
    IF prev_hash # header_prev(header) THEN "prev hash mismatch"
    ELSE IF TESTNET THEN "ok"
    ELSE IF IsAuxAt(header.cells[1].v8, header.block_height)
    THEN IF expected_header_hash # NoExpected /\ expected_header_hash # hash_header(header)
         THEN "hash mismatch" ELSE "ok"
    ELSE IF header.block_height > max_checkpoint
            /\ header.block_height % POW_SAMPLE_PERIOD # 0
    THEN "ok"
    ELSE IF ~skip_bits_check /\ BitsOfTarget(target) # header_bits(header)
    THEN "bits mismatch"
    ELSE IF expected_header_hash # NoExpected /\ expected_header_hash # hash_header(header)
    THEN "hash mismatch"
    ELSE IF block_hash_as_num(hash_header(header)) > target
    THEN "insufficient proof of work"
    ELSE "ok"

\* length, in cells, of the header at offset p (0-based) for height s
header_len_at(data, p, s) ==
    IF s >= AuxPowActivationHeight
    THEN IF data[p + 1].v8 THEN LEGACY_HEADER_SIZE ELSE HEADER_SIZE
    ELSE IF s >= KawpowActivationHeight THEN HEADER_SIZE
    ELSE LEGACY_HEADER_SIZE

\* the loop of verify_chunk from offset p at height s: [err, s]
RECURSIVE VerifyLoop(_, _, _, _, _, _)
VerifyLoop(W, c, data, p, s, prev_hash) ==
    IF p >= Len(data) THEN [err |-> "ok", s |-> s]
    ELSE LET header_len == header_len_at(data, p, s)
         IN IF p + header_len > Len(data) THEN [err |-> "ok", s |-> s]
            ELSE LET raw == SubSeq(data, p + 1, p + header_len)
                     q == p + header_len
                     got == get_hash(W, c, s)
                     expected == IF got = MissingHeader THEN NoExpected ELSE got
                     header == deserialize_header(raw, s)
                     in_dgw == DGW_CHECKPOINTS_START <= s /\ s <= max_checkpoint
                     sentinel == in_dgw /\ is_dgw_height_checkpoint(s) # -1
                     computed == IF sentinel THEN get_target(W, c, s, << >>) ELSE 0
                     target == IF sentinel /\ computed >= 0 THEN computed
                               ELSE TargetOfBits(header_bits(header))
                     skip == IF in_dgw THEN sentinel /\ computed = NotEnoughHeaders
                             ELSE TRUE
                     res == verify_header(header, prev_hash, target, expected, skip)
                     next_prev == IF s > max_checkpoint /\ q < Len(data)
                                  THEN data[q + 1].prev
                                  ELSE hash_header(header)
                 IN IF got = Raised \/ computed = TargetRaised
                    THEN [err |-> "raised", s |-> s]
                    ELSE IF res # "ok" THEN [err |-> res, s |-> s]
                    ELSE VerifyLoop(W, c, data, q, s + 1, next_prev)

\* verify_chunk without its two closing assertions on DGW chunks
verify_chunk_any_size(W, c, start_height, data) ==
    IF IsErr(get_hash(W, c, start_height - 1)) THEN "raised"
    ELSE VerifyLoop(W, c, data, 0, start_height, get_hash(W, c, start_height - 1)).err

verify_chunk(W, c, start_height, data) ==
    LET prev_hash == get_hash(W, c, start_height - 1)
    IN IF IsErr(prev_hash) THEN "raised"
       ELSE LET r == VerifyLoop(W, c, data, 0, start_height, prev_hash)
                processed_headers == r.s - start_height
            IN IF r.err # "ok" THEN r.err
               ELSE IF DGW_CHECKPOINTS_START <= start_height /\ start_height <= max_checkpoint
               THEN IF start_height % DGW_CHECKPOINTS_SPACING # 0 THEN "dgw chunk not from start"
                    ELSE IF processed_headers # DGW_CHECKPOINTS_SPACING
                    THEN "dgw chunk not correct size"
                    ELSE "ok"
               ELSE "ok"

\* ------------------------------------------------------------------------
\* The chain store: write, save_chunk, save_header, swap
\* ------------------------------------------------------------------------
SetFile(fs, p, content) ==
    [q \in DOMAIN fs \cup {p} |-> IF q = p THEN content ELSE fs[q]]

RemoveFile(fs, p) == [q \in DOMAIN fs \ {p} |-> fs[q]]

Zeros(n) == [i \in 1..n |-> ZeroRecord]

Max(a, b) == IF a > b THEN a ELSE b

Min(a, b) == IF a < b THEN a ELSE b

\* a write that never truncates
WrittenFileKept(f, data, offset, truncate_first) ==
    SubSeq(f, 1, Min(offset, Len(f))) \o Zeros(Max(0, offset - Len(f)))
    \o data \o SubSeq(f, offset + Len(data) + 1, Len(f))

\* the records of a file after writing data at record offset, as the file
\* system does it: truncate (or extend with zeroes) to offset first when asked,
\* then overwrite from offset, zero-filling a gap
WrittenFile(f, data, offset, truncate_first) ==
    LET base == IF truncate_first THEN SubSeq(f, 1, Min(offset, Len(f))) ELSE f
        head == SubSeq(base, 1, Min(offset, Len(base))) \o Zeros(Max(0, offset - Len(base)))
        tail == SubSeq(base, offset + Len(data) + 1, Len(base))
    IN head \o data \o tail

\* write(data, offset, truncate): [ok, W]; raises when the file is missing
write(W, c, data, offset, truncate) ==
    LET filename == path(W, c)
    IN IF ~FileExists(W, filename) THEN [ok |-> FALSE, W |-> W]
       ELSE LET f2 == WrittenFile(W.files[filename], data, offset,
                                  truncate /\ offset # size(W, c))
                W2 == [W EXCEPT !.files = SetFile(W.files, filename, f2)]
            IN [ok |-> TRUE, W |-> update_size(W2, c)]

\* cells -> records of HEADER_SIZE cells (the length is a multiple of it)
Records(cells) ==
    [i \in 1..(Len(cells) \div HEADER_SIZE) |->
        SubSeq(cells, (i - 1) * HEADER_SIZE + 1, i * HEADER_SIZE)]

\* convert_to_kawpow_len: every header of the chunk padded to HEADER_SIZE cells
\* convert_to_kawpow_len that pads with a cell that is not zero
RECURSIVE convert_to_kawpow_len_marked(_, _, _)
convert_to_kawpow_len_marked(chunk, p, s) ==
    IF p >= Len(chunk) THEN << >>
    ELSE LET hdr_len == header_len_at(chunk, p, s)
             piece == SubSeq(chunk, p + 1, Min(p + hdr_len, Len(chunk)))
             padded == IF hdr_len = LEGACY_HEADER_SIZE THEN piece \o <<CellC(2)>> ELSE piece
         IN padded \o convert_to_kawpow_len_marked(chunk, p + hdr_len, s + 1)

RECURSIVE convert_to_kawpow_len(_, _, _)
convert_to_kawpow_len(chunk, p, s) ==
    IF p >= Len(chunk) THEN << >>
    ELSE LET hdr_len == header_len_at(chunk, p, s)
             piece == SubSeq(chunk, p + 1, Min(p + hdr_len, Len(chunk)))
             padded == IF hdr_len = LEGACY_HEADER_SIZE THEN piece \o <<ZeroCell>> ELSE piece
         IN padded \o convert_to_kawpow_len(chunk, p + hdr_len, s + 1)

get_best_chain(W) == W.reg[GENESIS]

get_direct_children(W, c) ==
    {y \in {W.reg[k] : k \in DOMAIN W.reg} : W.chains[y].parent = c}

\* _swap_with_parent, last part: hashes, os.replace, sizes, registry
SwapRegistry(W, c, parent, child_old_id, parent_old_id) ==
    [W EXCEPT !.reg =
        [k \in (DOMAIN W.reg \ {child_old_id, parent_old_id})
               \cup {W.chains[c].fhash, W.chains[parent].fhash} |->
            IF k = W.chains[parent].fhash THEN parent
            ELSE IF k = W.chains[c].fhash THEN c
            ELSE W.reg[k]]]

SwapFiles(W, c, parent, child_old_name) ==
    update_size(update_size(
        [W EXCEPT !.files = SetFile(RemoveFile(W.files, child_old_name),
                                    path(W, parent), W.files[child_old_name])],
        c), parent)

SwapHashes(W, c, parent, me, par, new_parent_hash) ==
    [W EXCEPT !.chains[c].fhash = par.fhash,
              !.chains[parent].fhash = new_parent_hash,
              !.chains[c].phash = par.phash,
              !.chains[parent].phash = me.phash]

SwapParams(W, c, parent, me, par) ==
    [W EXCEPT !.chains[c].parent = par.parent,
              !.chains[parent].parent = c,
              !.chains[c].forkpoint = par.forkpoint,
              !.chains[parent].forkpoint = me.forkpoint]

\* after both writes; W is the state with the parameters swapped
SwapFinish(W, c, parent, me, par, parent_data, child_old_name) ==
    IF Len(parent_data) = 0
    THEN [W |-> W, swapped |-> FALSE, err |-> TRUE]
    ELSE [W |-> SwapRegistry(
                  SwapFiles(
                    SwapHashes(W, c, parent, me, par,
                               hash_header(deserialize_header(parent_data[1], me.forkpoint))),
                    c, parent, child_old_name),
                  c, parent, me.fhash, par.fhash),
          swapped |-> TRUE, err |-> FALSE]

SwapWrite(W, c, parent, me, par, my_data, parent_data, child_old_name) ==
    SwapFinish(SwapParams(write(write(W, c, parent_data, 0, TRUE).W,
                                parent, my_data, me.forkpoint - par.forkpoint, TRUE).W,
                          c, parent, me, par),
               c, parent, me, par, parent_data, child_old_name)

\* a read of the parent's branch that stops one record early
ReadBranchShort(pf, from, parent_branch_size) ==
    SubSeq(pf, from + 1, Min(from + parent_branch_size - 1, Len(pf)))

\* f.read(HEADER_SIZE * parent_branch_size) at the forkpoint's offset
ReadBranch(pf, from, parent_branch_size) ==
    IF parent_branch_size < 0 THEN SubSeq(pf, from + 1, Len(pf))
    ELSE SubSeq(pf, from + 1, Min(from + parent_branch_size, Len(pf)))

SwapData(W, c, parent, me, par, child_old_name, parent_old_name) ==
    IF ~FileExists(W, child_old_name) \/ ~FileExists(W, parent_old_name)
       \/ ~(me.forkpoint > par.forkpoint)
    THEN [W |-> W, swapped |-> FALSE, err |-> TRUE]
    ELSE SwapWrite(W, c, parent, me, par, W.files[child_old_name],
                   ReadBranch(W.files[parent_old_name], me.forkpoint - par.forkpoint,
                              height(W, parent) - me.forkpoint + 1),
                   child_old_name)

\* _swap_with_parent with the comparison of line 795 always taken: the child
\* is never found stronger
SwapCompare_never(W, c, parent, pw, cw) ==
    IF ~pw.ok THEN [W |-> [W EXCEPT !.cache = pw.cache], swapped |-> FALSE, err |-> TRUE]
    ELSE IF ~cw.ok THEN [W |-> [W EXCEPT !.cache = cw.cache], swapped |-> FALSE, err |-> TRUE]
    ELSE [W |-> [W EXCEPT !.cache = cw.cache], swapped |-> FALSE, err |-> FALSE]

SwapCompare(W, c, parent, pw, cw) ==
    IF ~pw.ok THEN [W |-> [W EXCEPT !.cache = pw.cache], swapped |-> FALSE, err |-> TRUE]
    ELSE IF ~cw.ok THEN [W |-> [W EXCEPT !.cache = cw.cache], swapped |-> FALSE, err |-> TRUE]
    ELSE IF pw.work >= cw.work
    THEN [W |-> [W EXCEPT !.cache = cw.cache], swapped |-> FALSE, err |-> FALSE]
    ELSE SwapData([W EXCEPT !.cache = cw.cache], c, parent, W.chains[c], W.chains[parent],
                  path(W, c), path(W, parent))

SwapChild(W, c, parent, pw) ==
    SwapCompare(W, c, parent, pw, get_chainwork([W EXCEPT !.cache = pw.cache], c))

\* _swap_with_parent: [W, swapped, err]; on err the W is the state it
\* raised in
swap_with_parent_once(W, c) ==
    IF W.chains[c].parent = 0 THEN [W |-> W, swapped |-> FALSE, err |-> FALSE]
    ELSE SwapChild(W, c, W.chains[c].parent, get_chainwork(W, W.chains[c].parent))

\* the re-parenting of former siblings after one swap
Reparent(W, c, old_parent) ==
    LET moving == {y \in get_direct_children(W, old_parent) :
                      check_hash(W, c, W.chains[y].forkpoint - 1, W.chains[y].phash)}
    IN [W EXCEPT !.chains = [i \in DOMAIN W.chains |->
            IF i \in moving THEN [W.chains[i] EXCEPT !.parent = c] ELSE W.chains[i]]]

\* save_chunk that truncates the file in the checkpoint region too
save_chunk_write_truncating(W, c, start_height, chunk0) ==
    LET in_region == start_height <= max_checkpoint
        delta_height == start_height - W.chains[c].forkpoint
        chunk1 == IF delta_height < 0
                  THEN SubSeq(chunk0, (-delta_height) * HEADER_SIZE + 1, Len(chunk0))
                  ELSE chunk0
        delta == IF delta_height < 0 THEN 0 ELSE delta_height
        truncate == TRUE
        chunk == convert_to_kawpow_len(chunk1, 0, start_height)
    IN IF Len(chunk) % HEADER_SIZE # 0 THEN [W |-> W, err |-> TRUE]
       ELSE LET w == write(W, c, Records(chunk), delta, truncate)
            IN IF ~w.ok THEN [W |-> W, err |-> TRUE]
               ELSE LET saved_header == read_header(w.W, c, start_height)
                    IN IF Len(chunk) = 0 \/ saved_header = RaisedHeader
                          \/ saved_header # deserialize_header(SubSeq(chunk, 1, HEADER_SIZE),
                                                               start_height)
                       THEN [W |-> w.W, err |-> TRUE]
                       ELSE [W |-> w.W, err |-> FALSE]

\* save_chunk up to its call of swap_with_parent, on the chain that stores
\* the chunk: [W, err]
save_chunk_write(W, c, start_height, chunk0) ==
    LET in_region == start_height <= max_checkpoint
        delta_height == start_height - W.chains[c].forkpoint
        chunk1 == IF delta_height < 0
                  THEN SubSeq(chunk0, (-delta_height) * HEADER_SIZE + 1, Len(chunk0))
                  ELSE chunk0
        delta == IF delta_height < 0 THEN 0 ELSE delta_height
        truncate == ~in_region
        chunk == convert_to_kawpow_len(chunk1, 0, start_height)
    IN IF Len(chunk) % HEADER_SIZE # 0 THEN [W |-> W, err |-> TRUE]
       ELSE LET w == write(W, c, Records(chunk), delta, truncate)
            IN IF ~w.ok THEN [W |-> W, err |-> TRUE]
               ELSE LET saved_header == read_header(w.W, c, start_height)
                    IN IF Len(chunk) = 0 \/ saved_header = RaisedHeader
                          \/ saved_header # deserialize_header(SubSeq(chunk, 1, HEADER_SIZE),
                                                               start_height)
                       THEN [W |-> w.W, err |-> TRUE]
                       ELSE [W |-> w.W, err |-> FALSE]

\* the chain whose save_chunk does the writing: the main chain for a chunk in
\* the checkpoint region, else the chain itself (0: the registry has no main)
save_chunk_target(W, c, start_height) ==
    IF start_height <= max_checkpoint /\ W.chains[c].parent # 0
    THEN IF GENESIS \in DOMAIN W.reg THEN get_best_chain(W) ELSE 0
    ELSE c

\* save_header up to its call of swap_with_parent: [W, err]
save_header_write(W, c, header) ==
    LET delta == header.block_height - W.chains[c].forkpoint
        data == serialize_header(header)
        padded == IF Len(data) = LEGACY_HEADER_SIZE THEN data \o <<ZeroCell>> ELSE data
    IN IF delta # size(W, c) \/ Len(padded) # HEADER_SIZE THEN [W |-> W, err |-> TRUE]
       ELSE LET w == write(W, c, <<padded>>, delta, TRUE)
            IN [W |-> w.W, err |-> ~w.ok]

\* can_connect that takes the header's own bits as the target at every height
can_connect_own_bits(W, c, header, check_height) ==
    LET h == header.block_height
        prev_hash == get_hash(W, c, h - 1)
        target == TargetOfBits(header_bits(header))
    IN IF header = None THEN "false"
       ELSE IF check_height /\ height(W, c) # h - 1 THEN "false"
       ELSE IF h = 0 THEN (IF hash_header(header) = GENESIS THEN "true" ELSE "false")
       ELSE IF IsErr(prev_hash) THEN "false"
       ELSE IF prev_hash # header_prev(header) THEN "false"
       ELSE IF verify_header(header, prev_hash, target, NoExpected, TRUE) = "ok"
       THEN "true" ELSE "false"

\* can_connect: "true", "false", or "raised" (NotEnoughHeaders, MissingHeader)
can_connect(W, c, header, check_height) ==
    LET h == header.block_height
        prev_hash == get_hash(W, c, h - 1)
        target == IF h > max_checkpoint THEN TargetOfBits(header_bits(header))
                  ELSE get_target(W, c, h, << >>)
    IN IF header = None THEN "false"
       ELSE IF check_height /\ height(W, c) # h - 1 THEN "false"
       ELSE IF h = 0 THEN (IF hash_header(header) = GENESIS THEN "true" ELSE "false")
       ELSE IF IsErr(prev_hash) THEN "false"
       ELSE IF prev_hash # header_prev(header) THEN "false"
       ELSE IF target = NotEnoughHeaders THEN "raised"
       ELSE IF target = TargetRaised THEN "false"
       ELSE IF verify_header(header, prev_hash, target, NoExpected, h > max_checkpoint) = "ok"
       THEN "true" ELSE "false"

\* fork with a constructor that does not refuse forkpoints in the checkpoints
fork_create_unguarded(W, parent, header, n) ==
    IF can_connect(W, parent, header, FALSE) # "true" THEN [W |-> W, err |-> TRUE]
    ELSE IF ~FileExists(W, path(W, parent)) THEN [W |-> W, err |-> TRUE]
    ELSE [W |-> [W EXCEPT !.chains[n] =
                      [live |-> TRUE, forkpoint |-> header.block_height,
                       parent |-> parent, fhash |-> hash_header(header),
                       phash |-> get_hash(W, parent, header.block_height - 1),
                       size |-> 0],
                    !.files = SetFile(W.files,
                                      <<header.block_height,
                                        get_hash(W, parent, header.block_height - 1),
                                        hash_header(header)>>, << >>)],
          err |-> FALSE]

\* the constructor Blockchain(...) and fork's truncation of the new file,
\* before save_header: [W, err]; n is the new instance
fork_create(W, parent, header, n) ==
    LET forkpoint == header.block_height
        me == [live |-> TRUE, forkpoint |-> forkpoint, parent |-> parent,
               fhash |-> hash_header(header),
               phash |-> get_hash(W, parent, forkpoint - 1), size |-> 0]
        W1 == update_size([W EXCEPT !.chains[n] = me], n)
    IN IF can_connect(W, parent, header, FALSE) # "true" THEN [W |-> W, err |-> TRUE]
       ELSE IF forkpoint <= max_checkpoint THEN [W |-> W, err |-> TRUE]
       ELSE IF ~FileExists(W, path(W, parent)) THEN [W |-> W, err |-> TRUE]
       ELSE [W |-> [W1 EXCEPT !.files = SetFile(W1.files, path(W1, n), << >>)],
             err |-> FALSE]

\* instances nothing refers to are gone
Referenced(W, i) ==
    \/ i \in {W.reg[k] : k \in DOMAIN W.reg}
    \/ \E j \in DOMAIN W.chains : W.chains[j].live /\ W.chains[j].parent = i

Collect(W, n) ==
    IF Referenced(W, n) THEN W ELSE [W EXCEPT !.chains[n] = NoChain]

\* ------------------------------------------------------------------------
\* Inputs: what a server can send
\* ------------------------------------------------------------------------
HashAt(cells, h) == hash_header(deserialize_header(cells, h))

NonceOptions(h) == IF h % POW_SAMPLE_PERIOD = 0 THEN {0, 2} ELSE {0}

\* the wire forms of a header at height h naming prev
HeaderOptions(h, prev) ==
    IF h < KawpowActivationHeight THEN {LegBytes(FALSE, prev, 2, 0)}
    ELSE {ExtBytes(prev, b, n) : b \in {1, 2}, n \in NonceOptions(h)}
         \cup (IF h >= AuxPowActivationHeight THEN {LegBytes(TRUE, prev, 2, 0)} ELSE {})

\* chunks of exactly k headers from height h on top of prev; each header
\* names the hash before it or a made-up one
RECURSIVE Chunks(_, _, _, _)
Chunks(prev, h, k, first) ==
    IF k = 0 \/ h > MaxHeight THEN {<< >>}
    ELSE UNION {
           UNION { {hd \o rest : rest \in Chunks(HashAt(hd, h), h + 1, k - 1, FALSE)}
                   : hd \in HeaderOptions(h, p) }
           : p \in IF first /\ k > 1 THEN {prev} ELSE {prev, BogusHash} }

\* number of complete headers of a chunk that starts at height s
RECURSIVE CountHeaders(_, _, _)
CountHeaders(data, p, s) ==
    IF p >= Len(data) THEN 0
    ELSE IF p + header_len_at(data, p, s) > Len(data) THEN 0
    ELSE 1 + CountHeaders(data, p + header_len_at(data, p, s), s + 1)

\* a chunk of the checkpointed chain: n headers from start
RECURSIVE CheckpointedChunk(_, _)
CheckpointedChunk(start, n) ==
    IF n = 0 \/ start > max_checkpoint THEN << >>
    ELSE CheckpointedChain[start] \o CheckpointedChunk(start + 1, n - 1)

PartialRecord == <<CellA(FALSE, BogusHash)>>

\* what is offered to connect_chunk(start) on chain c
ChunkInputs(W, c, start) ==
    IF start <= max_checkpoint
    THEN LET good == CheckpointedChunk(start, DGW_CHECKPOINTS_SPACING)
         IN {good, SubSeq(good, 1, Len(good) - HEADER_SIZE),
             SubSeq(good, 1, Len(good) - 1) \o <<CellC(2)>>}
    ELSE LET prev == get_hash(W, c, start - 1)
             p == IF IsErr(prev) THEN BogusHash ELSE prev
             whole == UNION {Chunks(p, start, k, TRUE) : k \in 0..MaxChunkLen}
         IN whole \cup {d \o PartialRecord : d \in Chunks(p, start, 1, TRUE)}

\* ------------------------------------------------------------------------
\* The operations
\* ------------------------------------------------------------------------
\* what an operation can change, apart from the chain-work cache
Snapshot == [chains |-> chains, files |-> files, reg |-> blockchains]

NoSnapshot == [chains |-> << >>, files |-> << >>, reg |-> << >>]

Idle == [at |-> "idle", op |-> "none", c |-> 0, sc |-> 0, cnt |-> 0, start |-> 0, n |-> 0,
         pre |-> NoSnapshot]

Live == {i \in Insts : chains[i].live}

Apply(W) ==
    /\ chains' = W.chains
    /\ files' = W.files
    /\ blockchains' = W.reg
    /\ cache' = W.cache

\* the operation returns
Finish(W, op, c, start, n, ret, swapped) ==
    /\ Apply(W)
    /\ pc' = Idle
    /\ last' = [op |-> op, c |-> c, start |-> start, n |-> n, ret |-> ret,
                nops |-> last.nops + 1,
                swaps |-> last.swaps + (IF swapped THEN 1 ELSE 0)]

\* the operation goes on in swap_with_parent of chain sc
EnterSwap(W, op, c, sc, start, n) ==
    /\ Apply(W)
    /\ pc' = [at |-> "swap", op |-> op, c |-> c, sc |-> sc, cnt |-> 0,
              start |-> start, n |-> n, pre |-> Snapshot]
    /\ last' = last

\* connect_chunk after verify_chunk: save_chunk on chain t
ConnectSaved(c, t, start, n, sw) ==
    IF sw.err
    THEN Finish(sw.W, "connect_chunk", c, start, n, "false", FALSE)
    ELSE EnterSwap(sw.W, "connect_chunk", c, t, start, n)

ConnectVerified(c, t, start, data, n) ==
    IF verify_chunk(World, c, start, data) # "ok" \/ t = 0
    THEN Finish(World, "connect_chunk", c, start, n, "false", FALSE)
    ELSE ConnectSaved(c, t, start, n, save_chunk_write(World, t, start, data))

\* connect_chunk(start, data) on chain c, up to swap_with_parent
ConnectChunk ==
    /\ pc.at = "idle"
    /\ last.nops < MaxOps
    /\ \E c \in Live, start \in 0..MaxHeight :
         \E data \in ChunkInputs(World, c, start) :
           ConnectVerified(c, save_chunk_target(World, c, start), start, data,
                           CountHeaders(data, 0, start))

SaveHeaderSaved(c, h, sw) ==
    IF sw.err
    THEN Finish(sw.W, "save_header", c, h, 1, "raised", FALSE)
    ELSE EnterSwap(sw.W, "save_header", c, c, h, 1)

SaveHeaderAt(c, h, prev) ==
    /\ h <= MaxHeight
    /\ ~IsErr(prev)
    /\ \E cells \in HeaderOptions(h, prev) :
         /\ can_connect(World, c, deserialize_header(cells, h), TRUE) = "true"
         /\ SaveHeaderSaved(c, h, save_header_write(World, c, deserialize_header(cells, h)))

\* the network layer's can_connect(header) and save_header on the chain found
SaveHeader ==
    /\ pc.at = "idle"
    /\ last.nops < MaxOps
    /\ \E c \in {blockchains[k] : k \in DOMAIN blockchains} :
         SaveHeaderAt(c, height(World, c) + 1, get_hash(World, c, height(World, c)))

ForkSaved(parent, n, h, sw) ==
    IF sw.err
    THEN Finish(Collect(sw.W, n), "fork", parent, h, 1, "raised", FALSE)
    ELSE EnterSwap(sw.W, "fork", parent, n, h, 1)

ForkCreated(parent, n, h, header, fc) ==
    IF fc.err
    THEN Finish(fc.W, "fork", parent, h, 1, "raised", FALSE)
    ELSE ForkSaved(parent, n, h, save_header_write(fc.W, n, header))

ForkHeader(parent, n, h, header) ==
    ForkCreated(parent, n, h, header, fork_create(World, parent, header, n))

ForkAt(parent, n, h, prev) ==
    /\ h <= height(World, parent) + 1
    /\ \E p \in (IF IsErr(prev) THEN {} ELSE {prev}) \cup {BogusHash} :
         \E cells \in HeaderOptions(h, p) :
           ForkHeader(parent, n, h, deserialize_header(cells, h))

\* parent.fork(header), up to swap_with_parent inside its save_header
Fork ==
    /\ pc.at = "idle"
    /\ last.nops < MaxOps
    /\ \E i \in Insts : ~chains[i].live
    /\ \E parent \in Live, h \in max_checkpoint..MaxHeight :
         ForkAt(parent, CHOOSE i \in Insts : ~chains[i].live, h,
                get_hash(World, parent, h - 1))

\* fork's last statement: blockchains[chain_id] = self
Register(W, n) ==
    [W EXCEPT !.reg = [k \in DOMAIN W.reg \cup {W.chains[n].fhash} |->
                          IF k = W.chains[n].fhash THEN n ELSE W.reg[k]]]

Failed(op) == IF op = "connect_chunk" THEN "false" ELSE "raised"

Succeeded(op) == IF op = "connect_chunk" THEN "true" ELSE "ok"

SwapTurn(r, old_parent) ==
    IF r.err
    THEN Finish(IF pc.op = "fork" THEN Collect(r.W, pc.sc) ELSE r.W,
                pc.op, pc.c, pc.start, pc.n, Failed(pc.op), FALSE)
    ELSE IF ~r.swapped
    THEN Finish(IF pc.op = "fork" THEN Register(r.W, pc.sc) ELSE r.W,
                pc.op, pc.c, pc.start, pc.n, Succeeded(pc.op), FALSE)
    ELSE IF pc.cnt + 1 > Cardinality(DOMAIN r.W.reg)
    THEN Finish(r.W, pc.op, pc.c, pc.start, pc.n, Failed(pc.op), TRUE)
    ELSE /\ Apply(Reparent(r.W, pc.sc, old_parent))
         /\ pc' = [pc EXCEPT !.cnt = pc.cnt + 1]
         /\ last' = [last EXCEPT !.swaps = last.swaps + 1]

\* one turn of the loop of swap_with_parent
SwapStep ==
    /\ pc.at = "swap"
    /\ SwapTurn(swap_with_parent_once(World, pc.sc), chains[pc.sc].parent)

\* a caller asks get_chainwork(h) of chain c
GetChainwork ==
    /\ pc.at = "idle"
    /\ \E c \in Live, h \in 0..MaxHeight :
         /\ h <= height(World, c)
         /\ cache' = get_chainwork_at(World, c, h).cache
         /\ UNCHANGED <<chains, files, blockchains, pc, last>>

\* ------------------------------------------------------------------------
\* After start-up: read_blockchains on a headers directory without forks,
\* then init_headers_file_for_best_chain
\* ------------------------------------------------------------------------
MainChain == [live |-> TRUE, forkpoint |-> 0, parent |-> 0, fhash |-> GENESIS,
              phash |-> ZeroHash, size |-> max_checkpoint + 1]

SyncedRegion == [h \in 1..(max_checkpoint + 1) |->
                    IF Len(CheckpointedChain[h - 1]) = HEADER_SIZE
                    THEN CheckpointedChain[h - 1]
                    ELSE CheckpointedChain[h - 1] \o <<ZeroCell>>]

InitialCache ==
    [k \in {ZeroHash, DGW_CHECKPOINTS[NUM_DGW_CHECKPOINTS - 1][1][1]} |-> 0]

Init ==
    /\ chains = [i \in Insts |-> IF i = 1 THEN MainChain ELSE NoChain]
    /\ files \in {[q \in {MainPath} |-> Zeros(max_checkpoint + 1)],
                  [q \in {MainPath} |-> SyncedRegion]}
    /\ blockchains = [k \in {GENESIS} |-> 1]
    /\ cache = InitialCache
    /\ pc = Idle
    /\ last = [op |-> "none", c |-> 0, start |-> 0, n |-> 0, ret |-> "none",
               nops |-> 0, swaps |-> 0]

Next == ConnectChunk \/ SaveHeader \/ Fork \/ SwapStep

Spec == Init /\ [][Next]_vars

\* the same program with callers that ask for chain work between chunks
NextWork == ConnectChunk \/ SwapStep \/ GetChainwork

SpecWork == Init /\ [][NextWork]_vars

\* ------------------------------------------------------------------------
\* verify_header on its own: the caller's arguments are drawn, then it runs
\* ------------------------------------------------------------------------
VerifyMaxHeight == 21

VerifyCells ==
    {LegBytes(aux, prev, bits, nonce) :
        aux \in BOOLEAN, prev \in {GENESIS, BogusHash}, bits \in {1, 2}, nonce \in {0, 1, 2}}
    \cup
    {<<CellA(aux, prev), CellB(bits, 0), CellC(nonce)>> :
        aux \in BOOLEAN, prev \in {GENESIS, BogusHash}, bits \in {1, 2}, nonce \in {1, 2}}

VerifyInputs ==
    {[op |-> "input", ret |-> "none", header |-> deserialize_header(cells, h),
      prev_hash |-> GENESIS, target |-> target, expected |-> e,
      skip_bits_check |-> skip] :
        cells \in VerifyCells, h \in 0..VerifyMaxHeight, target \in {8, 16},
        e \in {"none", "same", "other"}, skip \in BOOLEAN}

ExpectedOf(i) ==
    IF i.expected = "none" THEN NoExpected
    ELSE IF i.expected = "same" THEN hash_header(i.header)
    ELSE BogusHash

InitVerify ==
    /\ chains = [i \in Insts |-> IF i = 1 THEN MainChain ELSE NoChain]
    /\ files = [q \in {MainPath} |-> Zeros(max_checkpoint + 1)]
    /\ blockchains = [k \in {GENESIS} |-> 1]
    /\ cache = InitialCache
    /\ pc = Idle
    /\ last \in VerifyInputs

VerifyHeader ==
    /\ last.op = "input"
    /\ last' = [last EXCEPT !.op = "verify_header",
                            !.ret = verify_header(last.header, last.prev_hash, last.target,
                                                  ExpectedOf(last), last.skip_bits_check)]
    /\ UNCHANGED <<chains, files, blockchains, cache, pc>>

NextVerify == VerifyHeader

SpecVerify == InitVerify /\ [][NextVerify]_vars

\* ------------------------------------------------------------------------
\* Properties
\* ------------------------------------------------------------------------
\* the slot of height h on chain c holds a header
Stored(c, h) ==
    /\ h >= 0
    /\ h <= height(World, c)
    /\ read_header(World, c, h) # None
    /\ read_header(World, c, h) # RaisedHeader

AtRest == pc.at = "idle"

\* C1: between operations, every stored header above height 0, on every
\* chain, names as its prev_block_hash the hash get_hash gives for the height
\* below it.
C1_Linkage ==
    AtRest =>
      \A c \in Live : \A h \in 1..MaxHeight :
        Stored(c, h) =>
          header_prev(read_header(World, c, h)) = get_hash(World, c, h - 1)

\* the state in which the running operation was called
Before == IF pc.at = "idle" THEN Snapshot ELSE pc.pre

\* the step in which operation op returns ret
Returns(op, ret) ==
    /\ last'.nops = last.nops + 1
    /\ last'.op = op
    /\ last'.ret = ret

\* C2: a connect_chunk that returns False has changed nothing: not the files
\* (sizes and header contents), not the registry, not any chain's fields.
C2_AllOrNothing ==
    [][Returns("connect_chunk", "false") =>
          /\ files' = Before.files
          /\ chains' = Before.chains
          /\ blockchains' = Before.reg]_vars

MergedMined(h) == IsAuxAt(h.cells[1].v8, h.block_height)

\* the heights at which proof of work is compared with the target
PowChecked(h) ==
    h.block_height <= max_checkpoint \/ h.block_height % POW_SAMPLE_PERIOD = 0

\* C4: on mainnet verify_header accepts a header that is not merged-mined, at
\* a height up to max_checkpoint or a multiple of 10 above it, only if its
\* hash as a number is at most the target; at any other height it accepts
\* such a header exactly when the prev hash links; it accepts a merged-mined
\* header exactly when the prev hash links and the expected hash, if given,
\* is the header's hash, whatever its bits and its proof of work.
C4_PowPolicy ==
    last.op = "verify_header" =>
      LET h == last.header
          linked == last.prev_hash = header_prev(h)
          accepted == last.ret = "ok"
      IN /\ (~MergedMined(h) /\ PowChecked(h) /\ accepted) =>
               (linked /\ block_hash_as_num(hash_header(h)) <= last.target)
         /\ (~MergedMined(h) /\ ~PowChecked(h)) => (accepted <=> linked)
         /\ MergedMined(h) =>
               (accepted <=> (linked /\ last.expected # "other"))

\* a header that is not merged-mined was refused for its proof of work at a
\* sampled height above the checkpoints
C4_Witness ==
    /\ last.op = "verify_header"
    /\ ~MergedMined(last.header)
    /\ last.header.block_height > max_checkpoint
    /\ last.header.block_height % POW_SAMPLE_PERIOD = 0
    /\ last.ret = "insufficient proof of work"

\* C5 as stated: between operations, for every chain and every height from 0
\* to its height, get_hash gives the hash of what read_header returns, the
\* empty slots of a preallocated file included.
C5_HashOfEverySlot ==
    AtRest =>
      \A c \in Live : \A h \in 0..MaxHeight :
        h <= height(World, c) =>
          get_hash(World, c, h) = hash_header(read_header(World, c, h))

\* C5: between operations, for every chain and every height from 0 to its
\* height whose slot holds a header, get_hash gives the hash of the header
\* read_header returns; this includes height 0 and the checkpoint heights.
C5_HashOfStored ==
    AtRest =>
      \A c \in Live : \A h \in 0..MaxHeight :
        Stored(c, h) =>
          get_hash(World, c, h) = hash_header(read_header(World, c, h))

\* a fork chain reads a checkpoint height through its parent, and has a
\* header of its own above
C5_Witness ==
    /\ AtRest
    /\ \E c \in Live :
         /\ chains[c].parent # 0
         /\ Stored(c, 0)
         /\ Stored(c, max_checkpoint)
         /\ Stored(c, chains[c].forkpoint)

Registered == {blockchains[k] : k \in DOMAIN blockchains}

\* get_id()
get_id(W, c) == W.chains[c].fhash

C9_Registry ==
    AtRest =>
      /\ \A k \in DOMAIN blockchains : get_id(World, blockchains[k]) = k
      /\ \A c \in Live : \A d \in Live : get_id(World, c) = get_id(World, d) => c = d
      /\ \A c \in Live : c \in Registered
      /\ GENESIS \in DOMAIN blockchains
      /\ chains[blockchains[GENESIS]].parent = 0

\* get_chainwork() of a chain, -1 when it raises
Work(c) == IF get_chainwork(World, c).ok THEN get_chainwork(World, c).work ELSE -1

\* C6: between operations the chain get_best_chain returns has at least the
\* chain work of every chain of the registry.
C6_BestChainMaximal ==
    AtRest =>
      /\ GENESIS \in DOMAIN blockchains
      /\ \A c \in Registered : Work(get_best_chain(World)) >= Work(c)

\* _swap_with_parent has returned True in this step
Swapped == last'.swaps = last.swaps + 1

\* get_chainwork() of chain c after the step, -1 when it raises
WorkAfter(c) ==
    IF get_chainwork(World', c).ok THEN get_chainwork(World', c).work ELSE -1

\* chain c shows the same headers after the step as before
SameContents(c) ==
    /\ height(World', c) = height(World, c)
    /\ \A h \in 0..MaxHeight :
         h <= height(World, c) => get_hash(World', c, h) = get_hash(World, c, h)
    /\ WorkAfter(c) = Work(c)

\* C7: when _swap_with_parent returns True, the child and the parent each
\* have the same height, the same hash at every height up to it and the same
\* chain work as before, and the child has the path the parent had.
C7_SwapRelabels ==
    [][Swapped =>
          /\ SameContents(pc.sc)
          /\ SameContents(chains[pc.sc].parent)
          /\ path(World', pc.sc) = path(World, chains[pc.sc].parent)]_vars

\* _swap_with_parent has just returned True and the loop goes on
C7_Witness ==
    /\ pc.at = "swap"
    /\ pc.cnt > 0
    /\ last.swaps > 0
    /\ chains[pc.sc].parent = 0
    /\ chains[pc.sc].forkpoint = 0

WorkAt(c, h) ==
    IF get_chainwork_at(World, c, h).ok THEN get_chainwork_at(World, c, h).work ELSE -1

\* C10: between operations, on every chain, the chain work at a height is at
\* most the chain work at any greater height up to the chain's height,
\* wherever both can be computed, on either side of the last checkpoint.
C10_WorkMonotone ==
    AtRest =>
      \A c \in Live : \A h1 \in 0..MaxHeight : \A h2 \in h1..MaxHeight :
        (h2 <= height(World, c) /\ WorkAt(c, h1) >= 0 /\ WorkAt(c, h2) >= 0) =>
          WorkAt(c, h1) <= WorkAt(c, h2)

\* ------------------------------------------------------------------------
\* Hash kernels: which function computes the hash of a header
\* ------------------------------------------------------------------------
\* hash_raw_header_auxpow on the first 80 bytes of a serialized header:
\* scrypt when _SCRYPT_AVAILABLE and the call succeeds, sha256d otherwise
hash_raw_header_auxpow(header, scrypt_available, scrypt_fails) ==
    IF ~scrypt_available
    THEN [kernel |-> "sha256d", data |-> SubSeq(header, 1, 2)]
    ELSE IF scrypt_fails
    THEN [kernel |-> "sha256d", data |-> SubSeq(header, 1, 2)]
    ELSE [kernel |-> "scrypt", data |-> SubSeq(header, 1, 2)]

\* hash_header, with the kernel it hands the header to; timestamps follow
\* heights as in hash_header above
hash_header_kernel(h, scrypt_available, scrypt_fails) ==
    IF IsAuxAt(h.cells[1].v8, h.block_height)
    THEN hash_raw_header_auxpow(serialize_header(h), scrypt_available, scrypt_fails)
    ELSE IF h.block_height < KawpowActivationHeight \/ Len(h.cells) < HEADER_SIZE
    THEN [kernel |-> "x16r", data |-> SubSeq(serialize_header(h), 1, 2)]
    ELSE [kernel |-> "kawpow", data |-> serialize_header(h)]

HashInputs ==
    {[op |-> "input", ret |-> "none", header |-> deserialize_header(cells, h),
      scrypt_available |-> a, scrypt_fails |-> f] :
        cells \in VerifyCells, h \in 0..MaxHeight, a \in BOOLEAN, f \in BOOLEAN}

InitHash ==
    /\ chains = [i \in Insts |-> IF i = 1 THEN MainChain ELSE NoChain]
    /\ files = [q \in {MainPath} |-> Zeros(max_checkpoint + 1)]
    /\ blockchains = [k \in {GENESIS} |-> 1]
    /\ cache = InitialCache
    /\ pc = Idle
    /\ last \in HashInputs

HashHeader ==
    /\ last.op = "input"
    /\ last' = [last EXCEPT !.op = "hash_header",
                            !.ret = hash_header_kernel(last.header, last.scrypt_available,
                                                       last.scrypt_fails)]
    /\ UNCHANGED <<chains, files, blockchains, cache, pc>>

NextHash == HashHeader

SpecHash == InitHash /\ [][NextHash]_vars

\* C11: hashing a merged-mined header while scrypt is unavailable, or fails
\* at use, never returns a hash computed by another function.
C11_NoFallback ==
    (/\ last.op = "hash_header"
     /\ MergedMined(last.header)
     /\ (~last.scrypt_available \/ last.scrypt_fails)) =>
        last.ret.kernel = "error"

\* ------------------------------------------------------------------------
\* The header codec on bytes: a header is a dict of fields, its serialized
\* form a sequence of bytes (the hex string of serialize_header, two digits
\* a byte)
\* ------------------------------------------------------------------------
\* bytes in one of the cells above: 80 and 120 bytes are 2 and 3 cells
CELL_BYTES == 40

LegacyLen == LEGACY_HEADER_SIZE * CELL_BYTES

ExtendedLen == HEADER_SIZE * CELL_BYTES

\* s[a:b]
Slice(s, a, b) == SubSeq(s, a + 1, b)

Reverse(s) == [i \in 1..Len(s) |-> s[Len(s) + 1 - i]]

\* A byte holds the values 0..BYTE-1; bit 8 of a number is the lowest bit of
\* its second byte.
BYTE == 8

\* bitcoin.int_to_hex(i, length): little-endian bytes
RECURSIVE int_to_hex(_, _)
int_to_hex(i, length) ==
    IF length = 0 THEN << >>
    ELSE <<i % BYTE>> \o int_to_hex(i \div BYTE, length - 1)

\* bitcoin.rev_hex and bitcoin.hash_encode: the bytes in reverse order
rev_hex(s) == Reverse(s)

hash_encode(s) == Reverse(s)

\* int(x, 16) of the hex digits of a byte string: big-endian
RECURSIVE IntOfHex(_)
IntOfHex(s) ==
    IF Len(s) = 0 THEN 0
    ELSE BYTE * IntOfHex(SubSeq(s, 1, Len(s) - 1)) + s[Len(s)]

\* int.from_bytes(hex, byteorder='little')
hex_to_int(s) == IntOfHex(Reverse(s))

ZeroBytes(n) == [i \in 1..n |-> 0]

InvalidHeader == [error |-> "InvalidHeader"]

VersionBit8(version) == (version \div BYTE) % 2 = 1

IsMeowpowHeader(h) == "nheight" \in DOMAIN h

\* serialize_header writing the low 4 bytes of an extended header's nonce only
serialize_header_nonce32(h) ==
    IF "nheight" \in DOMAIN h
    THEN int_to_hex(h.version, 4) \o rev_hex(h.prev_block_hash) \o rev_hex(h.merkle_root)
         \o int_to_hex(h.timestamp, 4) \o int_to_hex(h.bits, 4) \o int_to_hex(h.nheight, 4)
         \o int_to_hex(h.nonce, 4) \o ZeroBytes(4) \o rev_hex(h.mix_hash)
    ELSE int_to_hex(h.version, 4) \o rev_hex(h.prev_block_hash) \o rev_hex(h.merkle_root)
         \o int_to_hex(h.timestamp, 4) \o int_to_hex(h.bits, 4) \o int_to_hex(h.nonce, 4)

\* serialize_header: 120 bytes for a dict with nheight, 80 bytes otherwise
serialize_header_bytes(h) ==
    IF IsMeowpowHeader(h)
    THEN int_to_hex(h.version, 4) \o rev_hex(h.prev_block_hash) \o rev_hex(h.merkle_root)
         \o int_to_hex(h.timestamp, 4) \o int_to_hex(h.bits, 4) \o int_to_hex(h.nheight, 4)
         \o int_to_hex(h.nonce, 8) \o rev_hex(h.mix_hash)
    ELSE int_to_hex(h.version, 4) \o rev_hex(h.prev_block_hash) \o rev_hex(h.merkle_root)
         \o int_to_hex(h.timestamp, 4) \o int_to_hex(h.bits, 4) \o int_to_hex(h.nonce, 4)

\* the five fields every header has
BaseFields(s) ==
    [version |-> hex_to_int(Slice(s, 0, 4)),
     prev_block_hash |-> hash_encode(Slice(s, 4, 36)),
     merkle_root |-> hash_encode(Slice(s, 36, 68)),
     timestamp |-> IntOfHex(hash_encode(Slice(s, 68, 72))),
     bits |-> IntOfHex(hash_encode(Slice(s, 72, 76)))]

IsAuxpowPadded(s, at_height) ==
    /\ at_height >= AuxPowActivationHeight
    /\ VersionBit8(hex_to_int(Slice(s, 0, 4)))
    /\ Slice(s, LegacyLen, ExtendedLen) = ZeroBytes(ExtendedLen - LegacyLen)

WithField(h, k, v) == [x \in DOMAIN h \cup {k} |-> IF x = k THEN v ELSE h[x]]

LegacyFields(s, at_height) ==
    WithField(WithField(BaseFields(s), "nonce", IntOfHex(hash_encode(Slice(s, 76, 80)))),
              "block_height", at_height)

ExtendedFields(s, at_height) ==
    WithField(WithField(WithField(WithField(BaseFields(s),
        "nheight", IntOfHex(hash_encode(Slice(s, 76, 80)))),
        "nonce", IntOfHex(hash_encode(Slice(s, 80, 88)))),
        "mix_hash", hash_encode(Slice(s, 88, 120))),
        "block_height", at_height)

\* deserialize_header taking a padded record for AuxPOW at any height
deserialize_header_any_height(s, at_height) ==
    IF Len(s) \notin {LegacyLen, ExtendedLen} THEN InvalidHeader
    ELSE IF Len(s) = ExtendedLen
    THEN IF IsAuxpowPadded(s, AuxPowActivationHeight) THEN LegacyFields(s, at_height)
         ELSE ExtendedFields(s, at_height)
    ELSE LegacyFields(s, at_height)

\* deserialize_header on bytes
deserialize_header_bytes(s, at_height) ==
    IF Len(s) = 0 THEN InvalidHeader
    ELSE IF Len(s) \notin {LegacyLen, ExtendedLen} THEN InvalidHeader
    ELSE IF Len(s) = ExtendedLen
    THEN IF IsAuxpowPadded(s, at_height) THEN LegacyFields(s, at_height)
         ELSE ExtendedFields(s, at_height)
    ELSE LegacyFields(s, at_height)

\* read_header's unpadding of a 120-byte record before it is deserialized
read_header_unpad(h, at_height) ==
    IF at_height >= AuxPowActivationHeight /\ Len(h) = ExtendedLen
       /\ VersionBit8(hex_to_int(Slice(h, 0, 4)))
       /\ Slice(h, LegacyLen, ExtendedLen) = ZeroBytes(ExtendedLen - LegacyLen)
    THEN Slice(h, 0, LegacyLen)
    ELSE h

\* ------------------------------------------------------------------------
\* The codec on its own: a header dict or a byte string is drawn, then
\* serialized and deserialized, or deserialized
\* ------------------------------------------------------------------------
HashBytesA == [i \in 1..32 |-> i % BYTE]

HashBytesZero == ZeroBytes(32)

CodecHeights == {AuxPowActivationHeight - 1, AuxPowActivationHeight}

\* version 4, and a version with bit 8 and a high byte set
CodecVersions == {4, BYTE + 4, 3 * BYTE * BYTE * BYTE + BYTE}

LegacyDicts ==
    {[version |-> v, prev_block_hash |-> p, merkle_root |-> HashBytesA, timestamp |-> t,
      bits |-> b, nonce |-> n, block_height |-> bh] :
        v \in CodecVersions, p \in {HashBytesA, HashBytesZero}, t \in {0, BYTE * BYTE + 2},
        b \in {0, 2 * BYTE + 1}, n \in {0, 3 * BYTE * BYTE + 5}, bh \in CodecHeights}

\* nonce 0 and a nonce above 32 bits; mix hash zero and not
ExtendedDicts ==
    {[version |-> v, prev_block_hash |-> HashBytesA, merkle_root |-> HashBytesZero,
      timestamp |-> t, bits |-> 2 * BYTE + 1, nheight |-> nh, nonce |-> n, mix_hash |-> m,
      block_height |-> bh] :
        v \in CodecVersions, t \in {0, BYTE * BYTE + 2}, nh \in {0, 5 * BYTE + 3},
        n \in {0, 6, (BYTE * BYTE) * (BYTE * BYTE) * BYTE + 6},
        m \in {HashBytesA, HashBytesZero}, bh \in CodecHeights}

\* byte strings a server or a file can hold: serialized headers, padded
\* 80-byte headers, and strings of other lengths
CodecBytes ==
    {serialize_header_bytes(h) : h \in LegacyDicts \cup ExtendedDicts}
    \cup {serialize_header_bytes(h) \o ZeroBytes(ExtendedLen - LegacyLen) : h \in LegacyDicts}
    \cup {serialize_header_bytes(h) \o [i \in 1..(ExtendedLen - LegacyLen) |->
                                           IF i = ExtendedLen - LegacyLen THEN 1 ELSE 0] :
             h \in LegacyDicts}
    \cup {ZeroBytes(n) : n \in {0, 1, LegacyLen - 1, LegacyLen + 1, ExtendedLen - 1,
                                 ExtendedLen + 1}}

\* no header: nothing was drawn, or nothing has been returned yet
NoHeader == [error |-> "none"]

CodecInputs ==
    {[op |-> "header", ret |-> NoHeader, header |-> h, data |-> << >>,
      at |-> h.block_height] : h \in LegacyDicts \cup ExtendedDicts}
    \cup
    {[op |-> "bytes", ret |-> NoHeader, header |-> NoHeader, data |-> d, at |-> bh] :
        d \in CodecBytes, bh \in CodecHeights}

InitCodec ==
    /\ chains = [i \in Insts |-> IF i = 1 THEN MainChain ELSE NoChain]
    /\ files = [q \in {MainPath} |-> Zeros(max_checkpoint + 1)]
    /\ blockchains = [k \in {GENESIS} |-> 1]
    /\ cache = InitialCache
    /\ pc = Idle
    /\ last \in CodecInputs

\* deserialize_header(bfh(serialize_header(h)), h['block_height'])
RoundTrip ==
    /\ last.op = "header"
    /\ last' = [last EXCEPT !.op = "round_trip",
                            !.data = serialize_header_bytes(last.header),
                            !.ret = deserialize_header_bytes(
                                        serialize_header_bytes(last.header), last.at)]
    /\ UNCHANGED <<chains, files, blockchains, cache, pc>>

\* deserialize_header(data, height)
Deserialize ==
    /\ last.op = "bytes"
    /\ last' = [last EXCEPT !.op = "deserialize_header",
                            !.ret = deserialize_header_bytes(last.data, last.at)]
    /\ UNCHANGED <<chains, files, blockchains, cache, pc>>

NextCodec == RoundTrip \/ Deserialize

SpecCodec == InitCodec /\ [][NextCodec]_vars

\* C12 as stated: serializing any legacy, merged-mined or extended header
\* and deserializing the bytes at the header's height gives the header back,
\* field by field.
C12_RoundTripEvery ==
    last.op = "round_trip" => last.ret = last.header

\* an extended header that serializes to a padded AuxPOW record
LooksPadded(h) ==
    /\ IsMeowpowHeader(h)
    /\ h.block_height >= AuxPowActivationHeight
    /\ VersionBit8(h.version)
    /\ h.nonce = 0
    /\ h.mix_hash = HashBytesZero

\* C12: serializing a legacy, merged-mined or extended header and
\* deserializing the bytes at the header's height gives the header back,
\* field by field, unless the header is an extended one at or above the AuxPOW
\* activation height with version bit 8 set and nonce and mix hash zero.
C12_RoundTrip ==
    (last.op = "round_trip" /\ ~LooksPadded(last.header)) => last.ret = last.header

\* an extended header with version bit 8 set and a nonce above 32 bits has
\* gone through the codec at the activation height
C12_Witness ==
    /\ last.op = "round_trip"
    /\ IsMeowpowHeader(last.header)
    /\ VersionBit8(last.header.version)
    /\ last.header.nonce > (BYTE * BYTE) * (BYTE * BYTE)
    /\ last.at >= AuxPowActivationHeight
    /\ Len(last.data) = ExtendedLen

\* the 120 bytes are an 80-byte header followed by 40 zero bytes, read at or
\* above the AuxPOW activation height with version bit 8 set
PaddedAuxpow(s, at_height) ==
    /\ at_height >= AuxPowActivationHeight
    /\ VersionBit8(hex_to_int(Slice(s, 0, 4)))
    /\ \A i \in (LegacyLen + 1)..ExtendedLen : s[i] = 0

DecodedLegacy(r, s) ==
    /\ r # InvalidHeader
    /\ "nheight" \notin DOMAIN r
    /\ "mix_hash" \notin DOMAIN r
    /\ r.nonce = hex_to_int(Slice(s, 76, 80))

DecodedExtended(r, s) ==
    /\ r # InvalidHeader
    /\ "nheight" \in DOMAIN r
    /\ "mix_hash" \in DOMAIN r
    /\ r.nheight = hex_to_int(Slice(s, 76, 80))
    /\ r.nonce = hex_to_int(Slice(s, 80, 88))
    /\ r.mix_hash = Reverse(Slice(s, 88, 120))

\* C13: deserialize_header decodes 80 bytes as a legacy/AuxPOW header, 120
\* bytes as a padded AuxPOW header exactly when the height is at or above the
\* activation height, version bit 8 is set and bytes 80..120 are zero, and as
\* an extended header otherwise; any other length raises InvalidHeader; and
\* read_header's unpadding of a record does not change what it decodes to.
C13_VariantSelection ==
    last.op = "deserialize_header" =>
      /\ Len(last.data) = LegacyLen => DecodedLegacy(last.ret, last.data)
      /\ (Len(last.data) = ExtendedLen /\ PaddedAuxpow(last.data, last.at)) =>
            DecodedLegacy(last.ret, last.data)
      /\ (Len(last.data) = ExtendedLen /\ ~PaddedAuxpow(last.data, last.at)) =>
            DecodedExtended(last.ret, last.data)
      /\ Len(last.data) \notin {LegacyLen, ExtendedLen} => last.ret = InvalidHeader
      /\ deserialize_header_bytes(read_header_unpad(last.data, last.at), last.at) = last.ret

\* 120 bytes with version bit 8 set and a single non-zero byte at the end
\* were decoded as an extended header at the activation height
C13_Witness ==
    /\ last.op = "deserialize_header"
    /\ Len(last.data) = ExtendedLen
    /\ last.at >= AuxPowActivationHeight
    /\ VersionBit8(hex_to_int(Slice(last.data, 0, 4)))
    /\ Slice(last.data, LegacyLen, ExtendedLen - 1) = ZeroBytes(ExtendedLen - LegacyLen - 1)
    /\ "nheight" \in DOMAIN last.ret

\* ------------------------------------------------------------------------
\* Compact bits: an exponent byte and three mantissa bytes; a target has
\* TARGET_BYTES bytes
\* ------------------------------------------------------------------------
TARGET_BYTES == 4

\* 1 << 24 and 1 << 32
MANTISSA_SPACE == BYTE * BYTE * BYTE

UINT32_SPACE == BYTE * MANTISSA_SPACE

\* 0x800000, 0xff and 0xffff
SIGN_BIT == MANTISSA_SPACE \div 2

ONE_BYTE_MAX == BYTE - 1

TWO_BYTES_MAX == BYTE * BYTE - 1

BitsNotUint32 == -1

TargetNegative == -2

TargetOverflown == -3

RECURSIVE Pow(_, _)
Pow(b, n) == IF n = 0 THEN 1 ELSE b * Pow(b, n - 1)

\* the target before bits_to_target's checks
ShiftedMantissa(bitsN, bitsBase) ==
    IF bitsN <= 3 THEN bitsBase \div Pow(BYTE, 3 - bitsN)
    ELSE bitsBase * Pow(BYTE, bitsN - 3)

\* the same checks with the over-range limits one exponent higher
bits_to_target_late(bits) ==
    IF ~(0 <= bits /\ bits < UINT32_SPACE) THEN BitsNotUint32
    ELSE IF ShiftedMantissa((bits \div MANTISSA_SPACE) % BYTE, bits % SIGN_BIT) # 0
            /\ (bits \div SIGN_BIT) % 2 # 0
    THEN TargetNegative
    ELSE IF ShiftedMantissa((bits \div MANTISSA_SPACE) % BYTE, bits % SIGN_BIT) # 0
            /\ (\/ (bits \div MANTISSA_SPACE) % BYTE > TARGET_BYTES + 2
                \/ ((bits \div MANTISSA_SPACE) % BYTE > TARGET_BYTES + 2
                    /\ bits % SIGN_BIT > ONE_BYTE_MAX)
                \/ ((bits \div MANTISSA_SPACE) % BYTE > TARGET_BYTES + 1
                    /\ bits % SIGN_BIT > TWO_BYTES_MAX))
    THEN TargetOverflown
    ELSE ShiftedMantissa((bits \div MANTISSA_SPACE) % BYTE, bits % SIGN_BIT)

BitsToTargetChecked(bits, bitsN, bitsBase, target) ==
    IF target # 0 /\ (bits \div SIGN_BIT) % 2 # 0 THEN TargetNegative
    ELSE IF target # 0
            /\ (\/ bitsN > TARGET_BYTES + 2
                \/ (bitsN > TARGET_BYTES + 1 /\ bitsBase > ONE_BYTE_MAX)
                \/ (bitsN > TARGET_BYTES /\ bitsBase > TWO_BYTES_MAX))
    THEN TargetOverflown
    ELSE target

BitsToTargetParts(bits, bitsN, bitsBase) ==
    BitsToTargetChecked(bits, bitsN, bitsBase, ShiftedMantissa(bitsN, bitsBase))

bits_to_target(bits) ==
    IF ~(0 <= bits /\ bits < UINT32_SPACE) THEN BitsNotUint32
    ELSE BitsToTargetParts(bits, (bits \div MANTISSA_SPACE) % BYTE, bits % SIGN_BIT)

\* the loop of target_to_bits: leading zero bytes go, c keeps three bytes
RECURSIVE StripZeros(_, _)
StripZeros(c, bitsN) ==
    IF bitsN > 0 /\ c[1] = 0
    THEN StripZeros(IF Len(c) - 1 < 3 THEN Tail(c) \o <<0>> ELSE Tail(c), bitsN - 1)
    ELSE [c |-> c, bitsN |-> bitsN]

TargetToBitsEnd(bitsN, bitsBase) ==
    IF bitsBase >= SIGN_BIT
    THEN (bitsN + 1) * MANTISSA_SPACE + bitsBase \div BYTE
    ELSE bitsN * MANTISSA_SPACE + bitsBase

TargetToBitsStripped(r) == TargetToBitsEnd(r.bitsN, IntOfHex(SubSeq(r.c, 1, 3)))

\* target_to_bits without the step that renormalises a mantissa with the
\* sign bit set
target_to_bits_signed(target) ==
    StripZeros(Reverse(int_to_hex(target, TARGET_BYTES)), TARGET_BYTES).bitsN * MANTISSA_SPACE
    + IntOfHex(SubSeq(StripZeros(Reverse(int_to_hex(target, TARGET_BYTES)),
                                 TARGET_BYTES).c, 1, 3))

target_to_bits(target) ==
    TargetToBitsStripped(StripZeros(Reverse(int_to_hex(target, TARGET_BYTES)), TARGET_BYTES))

\* ------------------------------------------------------------------------
\* The compact-bits functions on their own: every bits value of the format,
\* and one on each side of it, and every target that fits TARGET_BYTES bytes
\* ------------------------------------------------------------------------
TARGET_SPACE == Pow(BYTE, TARGET_BYTES)

BitsInputs ==
    {[op |-> "bits", arg |-> b, ret |-> 0, back |-> 0] : b \in (-1)..UINT32_SPACE}
    \cup {[op |-> "target", arg |-> t, ret |-> 0, back |-> 0] : t \in 0..(TARGET_SPACE - 1)}

InitBits ==
    /\ chains = [i \in Insts |-> IF i = 1 THEN MainChain ELSE NoChain]
    /\ files = [q \in {MainPath} |-> Zeros(max_checkpoint + 1)]
    /\ blockchains = [k \in {GENESIS} |-> 1]
    /\ cache = InitialCache
    /\ pc = Idle
    /\ last \in BitsInputs

\* the target is encoded again when bits_to_target returned one that fits
Reencoded(target) ==
    IF target >= 0 /\ target < TARGET_SPACE THEN target_to_bits(target) ELSE target

\* bits_to_target(bits), then target_to_bits of the result
BitsToTarget ==
    /\ last.op = "bits"
    /\ last' = [last EXCEPT !.op = "bits_to_target",
                            !.ret = bits_to_target(last.arg),
                            !.back = Reencoded(bits_to_target(last.arg))]
    /\ UNCHANGED <<chains, files, blockchains, cache, pc>>

\* target_to_bits(target), then bits_to_target of the result
TargetToBits ==
    /\ last.op = "target"
    /\ last' = [last EXCEPT !.op = "target_to_bits",
                            !.ret = target_to_bits(last.arg),
                            !.back = bits_to_target(target_to_bits(last.arg))]
    /\ UNCHANGED <<chains, files, blockchains, cache, pc>>

NextBits == BitsToTarget \/ TargetToBits

SpecBits == InitBits /\ [][NextBits]_vars

ExponentOf(bits) == (bits \div MANTISSA_SPACE) % BYTE

MantissaOf(bits) == bits % SIGN_BIT

SignOf(bits) == (bits \div SIGN_BIT) % 2 = 1

\* t is a number of at most three bytes followed by zero bytes
AtMostThreeBytes(t) ==
    \E k \in 0..TARGET_BYTES : t % Pow(BYTE, k) = 0 /\ t \div Pow(BYTE, k) < MANTISSA_SPACE

\* the same, with the sign bit of the three bytes clear
FitsMantissa(t) ==
    \E k \in 0..TARGET_BYTES : t % Pow(BYTE, k) = 0 /\ t \div Pow(BYTE, k) < SIGN_BIT

\* bits is what target_to_bits writes: zero; or sign bit clear, the highest
\* mantissa byte used unless it would set the sign bit, and nothing shifted out
NormalForm(bits) ==
    \/ bits = 0
    \/ /\ ~SignOf(bits)
       /\ MantissaOf(bits) >= SIGN_BIT \div BYTE
       /\ ExponentOf(bits) >= 1
       /\ ExponentOf(bits) < 3 => MantissaOf(bits) % Pow(BYTE, 3 - ExponentOf(bits)) = 0

\* C14 as stated: decoding the encoding of a target of at most three
\* significant bytes gives the target, and encoding the decoding of any bits
\* value that bits_to_target accepts gives the bits value.
C14_RoundTripsAsStated ==
    /\ (last.op = "target_to_bits" /\ AtMostThreeBytes(last.arg)) => last.back = last.arg
    /\ (last.op = "bits_to_target" /\ last.ret >= 0) => last.back = last.arg

\* C14: decoding the encoding of a target gives the target when the target
\* is a mantissa below the sign bit followed by zero bytes, and encoding the
\* decoding of a bits value gives the bits value when bits_to_target accepts
\* it and it is in the form target_to_bits writes.
C14_RoundTrips ==
    /\ (last.op = "target_to_bits" /\ FitsMantissa(last.arg)) => last.back = last.arg
    /\ (last.op = "bits_to_target" /\ last.ret >= 0 /\ last.ret < TARGET_SPACE
        /\ NormalForm(last.arg)) => last.back = last.arg

\* a target whose leading byte has its high bit set was encoded with the
\* mantissa moved down a byte, and decoded again
C14_Witness ==
    /\ last.op = "target_to_bits"
    /\ FitsMantissa(last.arg)
    /\ last.arg >= SIGN_BIT
    /\ MantissaOf(last.ret) < BYTE * BYTE
    /\ last.back = last.arg

\* a value of the 32-bit format whose mantissa, shifted, is not zero
NonZeroTarget(bits) == ShiftedMantissa(ExponentOf(bits), MantissaOf(bits)) # 0

OutsideUint32(bits) == bits < 0 \/ bits >= UINT32_SPACE

\* the over-range encodings as the claim lists them: N > 34, mantissa > 0xff
\* with N > 34, mantissa > 0xffff with N > 33
OverRangeAsStated(bits) ==
    \/ ExponentOf(bits) > TARGET_BYTES + 2
    \/ (MantissaOf(bits) > ONE_BYTE_MAX /\ ExponentOf(bits) > TARGET_BYTES + 2)
    \/ (MantissaOf(bits) > TWO_BYTES_MAX /\ ExponentOf(bits) > TARGET_BYTES + 1)

\* N > 34, mantissa > 0xff with N > 33, mantissa > 0xffff with N > 32
OverRange(bits) ==
    \/ ExponentOf(bits) > TARGET_BYTES + 2
    \/ (MantissaOf(bits) > ONE_BYTE_MAX /\ ExponentOf(bits) > TARGET_BYTES + 1)
    \/ (MantissaOf(bits) > TWO_BYTES_MAX /\ ExponentOf(bits) > TARGET_BYTES)

\* C15 as stated: bits_to_target raises exactly for a value outside uint32,
\* for a sign bit with a non-zero target, and for a non-zero target with
\* N > 34, or mantissa > 0xff and N > 34, or mantissa > 0xffff and N > 33;
\* every other value decodes to the mantissa shifted by 8*(N-3) bits.
C15_RejectionsAsStated ==
    last.op = "bits_to_target" =>
      /\ last.ret < 0 <=>
           \/ OutsideUint32(last.arg)
           \/ (~OutsideUint32(last.arg) /\ NonZeroTarget(last.arg)
               /\ (SignOf(last.arg) \/ OverRangeAsStated(last.arg)))
      /\ last.ret >= 0 =>
           last.ret = ShiftedMantissa(ExponentOf(last.arg), MantissaOf(last.arg))

\* C15: bits_to_target raises exactly for a value outside uint32, for a sign
\* bit with a non-zero target, and for a non-zero target with N > 34, or
\* mantissa > 0xff and N > 33, or mantissa > 0xffff and N > 32, which are the
\* targets that do not fit 32 bytes; every other value decodes to the
\* mantissa shifted by 8*(N-3) bits.
C15_Rejections ==
    last.op = "bits_to_target" =>
      /\ last.ret < 0 <=>
           \/ OutsideUint32(last.arg)
           \/ (~OutsideUint32(last.arg) /\ NonZeroTarget(last.arg)
               /\ (SignOf(last.arg) \/ OverRange(last.arg)))
      /\ last.ret >= 0 =>
           /\ last.ret = ShiftedMantissa(ExponentOf(last.arg), MantissaOf(last.arg))
           /\ last.ret < TARGET_SPACE
      /\ last.ret = TargetOverflown =>
           ShiftedMantissa(ExponentOf(last.arg), MantissaOf(last.arg)) >= TARGET_SPACE

\* a two-byte mantissa with the exponent one below the highest was refused
\* as overflown
C15_Witness ==
    /\ last.op = "bits_to_target"
    /\ ExponentOf(last.arg) = TARGET_BYTES + 1
    /\ MantissaOf(last.arg) > TWO_BYTES_MAX
    /\ ~SignOf(last.arg)
    /\ last.ret = TargetOverflown

\* ------------------------------------------------------------------------
\* Chunks inside the DGW checkpoint range
\* ------------------------------------------------------------------------
InDgwRange(start) == DGW_CHECKPOINTS_START <= start /\ start <= max_checkpoint

\* no header of the chunk differs from the checkpointed chain
NoAlteration == [at |-> -1, bits |-> 0, nonce |-> 0]

DgwBitsAt(h) == IF h <= max_checkpoint THEN CheckpointedBits(h) ELSE 2

\* the header offered for height h on top of prev
DgwHeaderAt(h, prev, alt) ==
    IF alt.at = h THEN ExtBytes(prev, alt.bits, alt.nonce)
    ELSE ExtBytes(prev, DgwBitsAt(h), 0)

\* k linked headers from height h on top of prev, the one at alt.at altered
RECURSIVE DgwChunk(_, _, _, _)
DgwChunk(h, prev, k, alt) ==
    IF k = 0 THEN << >>
    ELSE DgwHeaderAt(h, prev, alt)
           \o DgwChunk(h + 1, HashAt(DgwHeaderAt(h, prev, alt), h), k - 1, alt)

DgwAlterations(start) ==
    {NoAlteration} \cup
    {[at |-> start + p, bits |-> b, nonce |-> x] :
        p \in 0..(DGW_CHECKPOINTS_SPACING - 1), b \in 1..2, x \in 0..2}

\* what is offered to connect_chunk(start) for a start inside the range:
\* a window of the checkpointed chain, the same with one header altered and
\* its successors linked to it, one record short, one record long, and with
\* the beginning of a further record
DgwChunkInputs(start) ==
    {[data |-> DgwChunk(start, CheckpointedHash(start - 1), DGW_CHECKPOINTS_SPACING, a),
      alt |-> a] : a \in DgwAlterations(start)}
    \cup {[data |-> DgwChunk(start, CheckpointedHash(start - 1), k, NoAlteration),
           alt |-> NoAlteration] :
             k \in {DGW_CHECKPOINTS_SPACING - 1, DGW_CHECKPOINTS_SPACING + 1}}
    \cup {[data |-> DgwChunk(start, CheckpointedHash(start - 1), DGW_CHECKPOINTS_SPACING,
                             NoAlteration) \o PartialRecord,
           alt |-> NoAlteration]}

\* connect_chunk returns False from its except clause: nothing was written
DgwRejected(c, start, n, alt, err) ==
    /\ Apply(World)
    /\ pc' = Idle
    /\ last' = [op |-> "connect_chunk", c |-> c, start |-> start, n |-> n,
                ret |-> "false", nops |-> last.nops + 1, swaps |-> last.swaps,
                err |-> err, alt |-> alt]

ConnectDgwVerified(c, t, start, in, n, res) ==
    IF res # "ok" THEN DgwRejected(c, start, n, in.alt, res)
    ELSE IF t = 0 THEN DgwRejected(c, start, n, in.alt, "raised")
    ELSE ConnectSaved(c, t, start, n, save_chunk_write(World, t, start, in.data))

\* connect_chunk(start, data) on chain c for a start inside the DGW range
ConnectDgwChunk ==
    /\ pc.at = "idle"
    /\ last.nops < MaxOps
    /\ \E c \in Live, start \in DGW_CHECKPOINTS_START..max_checkpoint :
         \E in \in DgwChunkInputs(start) :
           ConnectDgwVerified(c, save_chunk_target(World, c, start), start, in,
                              CountHeaders(in.data, 0, start),
                              verify_chunk(World, c, start, in.data))

NextDgw == ConnectDgwChunk \/ SaveHeader \/ Fork \/ SwapStep

SpecDgw == Init /\ [][NextDgw]_vars

\* C16: inside the DGW checkpoint range connect_chunk returns True only for a
\* start that is a multiple of DGW_CHECKPOINTS_SPACING and a chunk of exactly
\* DGW_CHECKPOINTS_SPACING complete headers; for a chunk one record short it
\* returns False and the files, the registry and the chains are as before.
C16_DgwChunkShape ==
    [][/\ (Returns("connect_chunk", "true") /\ InDgwRange(last'.start))
          => (/\ last'.start % DGW_CHECKPOINTS_SPACING = 0
              /\ last'.n = DGW_CHECKPOINTS_SPACING)
       /\ (/\ last'.nops = last.nops + 1
           /\ last'.op = "connect_chunk"
           /\ InDgwRange(last'.start)
           /\ last'.n = DGW_CHECKPOINTS_SPACING - 1)
          => (/\ last'.ret = "false"
              /\ chains' = Before.chains
              /\ files' = Before.files
              /\ blockchains' = Before.reg)]_vars

\* a window of the range was connected to an empty region of the file
C16_Witness ==
    /\ last.op = "connect_chunk"
    /\ last.ret = "true"
    /\ InDgwRange(last.start)
    /\ last.n = DGW_CHECKPOINTS_SPACING
    /\ files[MainPath] # SyncedRegion
    /\ read_header(World, 1, last.start) # None

SentinelHeights ==
    {s \in DGW_CHECKPOINTS_START..max_checkpoint : is_dgw_height_checkpoint(s) # -1}

\* the bundled <<hash, target>> of sentinel height s
DgwCheckpoint(s) == DGW_CHECKPOINTS[DgwIndex(s)][is_dgw_height_checkpoint(s)]

IsStored(header) == header # None /\ header # RaisedHeader

\* the header at sentinel height s is the checkpointed one
Anchored(header, s) ==
    /\ hash_header(header) = DgwCheckpoint(s)[1]
    /\ header_bits(header) = BitsOfTarget(DgwCheckpoint(s)[2])

StoredAnchored(c, s) ==
    /\ IsStored(read_header(World, c, s))
    /\ Anchored(read_header(World, c, s), s)

\* the altered header is not the header of the checkpointed chain
Differs(a) == a.bits # DgwBitsAt(a.at) \/ a.nonce # 0

\* the exception verify_chunk(start) ends with when the header at a.at is the
\* first that differs from the checkpointed chain
DgwError(start, a) ==
    IF is_dgw_height_checkpoint(a.at) # -1
    THEN IF a.bits # BitsOfTarget(DgwCheckpoint(a.at)[2]) THEN "bits mismatch"
         ELSE "hash mismatch"
    ELSE IF Limb(a.nonce) > TargetOfBits(a.bits) THEN "insufficient proof of work"
    ELSE IF a.at + 1 < start + DGW_CHECKPOINTS_SPACING THEN "hash mismatch"
    ELSE "dgw chunk not from start"

\* C17: the header stored at a DGW sentinel height hashes to the bundled
\* checkpoint hash and carries the compact form of the bundled checkpoint
\* target, and get_hash at that height is that hash; a chunk accepted inside
\* the range leaves such headers at positions 0 and SPACING-1 of its window;
\* a chunk whose first altered header is a sentinel is refused for its bits
\* or its hash, and one whose first altered header is at another position is
\* refused there only when its proof of work fails its own declared bits.
C17_SentinelAnchoring ==
    /\ [](\A c \in Live, s \in SentinelHeights :
            /\ get_hash(World, c, s) = DgwCheckpoint(s)[1]
            /\ IsStored(read_header(World, c, s))
                 => Anchored(read_header(World, c, s), s))
    /\ [][/\ (Returns("connect_chunk", "true") /\ InDgwRange(last'.start))
              => \A s \in {last'.start, last'.start + DGW_CHECKPOINTS_SPACING - 1} :
                    /\ s \in SentinelHeights
                    /\ \A c \in Insts : c = last'.c => StoredAnchored(c, s)'
           /\ (/\ last'.nops = last.nops + 1
               /\ "alt" \in DOMAIN last'
               /\ InDgwRange(last'.alt.at)
               /\ Differs(last'.alt)
               /\ last'.err # "raised")
              => last'.err = DgwError(last'.start, last'.alt)]_vars

\* a window was connected to an empty region and its two sentinels are stored
C17_Witness ==
    /\ last.op = "connect_chunk"
    /\ last.ret = "true"
    /\ InDgwRange(last.start)
    /\ files[MainPath] # SyncedRegion
    /\ \A s \in {last.start, last.start + DGW_CHECKPOINTS_SPACING - 1} :
         /\ IsStored(read_header(World, last.c, s))
         /\ get_hash(World, last.c, s) = hash_header(read_header(World, last.c, s))

\* the headers= argument of get_target: absent, or the headers of a chunk
PassedHeaders == {<< >>, CheckpointedChunk(DGW_CHECKPOINTS_START, DGW_CHECKPOINTS_SPACING)}

KawpowResetWindow == KAWPOW_RESET_START..(KAWPOW_RESET_START + DGW_PASTBLOCKS - 1)

MeowpowResetWindow == MEOWPOW_RESET_START..(MEOWPOW_RESET_START + DGW_PASTBLOCKS - 1)

\* C18: on mainnet get_target returns KAWPOW_LIMIT at every height of the
\* kawpow reset window and MEOWPOW_LIMIT at every height of the meowpow
\* reset window, on every chain, whatever is stored at that height and
\* whatever headers are passed in.
C18_ResetWindows ==
    \A c \in Live, chain \in PassedHeaders :
      /\ \A h \in KawpowResetWindow : get_target(World, c, h, chain) = KAWPOW_LIMIT
      /\ \A h \in MeowpowResetWindow : get_target(World, c, h, chain) = MEOWPOW_LIMIT

\* a fork asks for the target of a reset-window height whose header was
\* written to an empty region by a chunk
C18_Witness ==
    /\ files[MainPath] # SyncedRegion
    /\ \E c \in Live \ {1} :
         /\ IsStored(read_header(World, c, MEOWPOW_RESET_START))
         /\ ~IsStored(read_header(World, c, KAWPOW_RESET_START))
         /\ get_target(World, c, MEOWPOW_RESET_START, << >>) = MEOWPOW_LIMIT
         /\ get_target(World, c, KAWPOW_RESET_START, << >>) = KAWPOW_LIMIT

\* ------------------------------------------------------------------------
\* The LWMA retarget of the two-algorithm era
\* ------------------------------------------------------------------------
LWMA_AVERAGING_WINDOW == 2

POW_TARGET_SPACING == 1

\* the factor of the walk's bound: search_limit = min(height - 1, N * 10)
LWMA_SEARCH_FACTOR == 2

SCRYPT_LIMIT == 16

\* a header as the retarget reads it: version bit 8, bits, timestamp
Block(bit8, bits, timestamp) ==
    [kind |-> "header", version_bit8 |-> bit8, bits |-> bits, timestamp |-> timestamp]

\* read_header returned None
NoBlock == [kind |-> "none"]

\* read_header raised
UnreadableBlock == [kind |-> "raised"]

\* get_block_algo without the test of the version bit
get_block_algo_single(header, at_height) == "meowpow"

get_block_algo(header, at_height) ==
    IF at_height >= AuxPowActivationHeight
    THEN IF header.version_bit8 THEN "scrypt" ELSE "meowpow"
    ELSE "meowpow"

\* the inner get_block_reading_from_height: the chain dict first, then the
\* stored header; NoBlock where it raises NotEnoughHeaders
get_block_reading_from_height(stored, chain, h) ==
    IF h \in DOMAIN chain THEN chain[h]
    ELSE IF h \in DOMAIN stored /\ stored[h].kind = "header" THEN stored[h]
    ELSE NoBlock

\* the walk from h down to lowest: same_algo_blocks, newest first
RECURSIVE CollectSameAlgo(_, _, _, _, _, _)
CollectSameAlgo(stored, chain, current_algo, h, lowest, same_algo_blocks) ==
    IF h < lowest \/ h < 0 \/ Len(same_algo_blocks) >= LWMA_AVERAGING_WINDOW + 1
    THEN same_algo_blocks
    ELSE IF get_block_reading_from_height(stored, chain, h) = NoBlock
    THEN same_algo_blocks
    ELSE CollectSameAlgo(stored, chain, current_algo, h - 1, lowest,
           IF get_block_algo(get_block_reading_from_height(stored, chain, h), h)
                = current_algo
           THEN Append(same_algo_blocks, get_block_reading_from_height(stored, chain, h))
           ELSE same_algo_blocks)

\* the timestamp after the monotonic adjustment
MonotonicTs(ts, prev_time) == IF ts <= prev_time THEN prev_time + 1 ELSE ts

ClampedSolveTime(ts, prev_time, T) ==
    Max(1, Min(MonotonicTs(ts, prev_time) - prev_time, 6 * T))

\* sum_weighted_solvetimes over blocks i..N (blocks[i + 1] is same_algo_blocks[i])
RECURSIVE SumWeightedSolvetimes(_, _, _, _)
SumWeightedSolvetimes(blocks, i, prev_time, T) ==
    IF i > LWMA_AVERAGING_WINDOW THEN 0
    ELSE i * ClampedSolveTime(blocks[i + 1].timestamp, prev_time, T)
         + SumWeightedSolvetimes(blocks, i + 1,
                                 MonotonicTs(blocks[i + 1].timestamp, prev_time), T)

RECURSIVE SumTargets(_, _)
SumTargets(blocks, i) ==
    IF i > LWMA_AVERAGING_WINDOW THEN 0
    ELSE TargetOfBits(blocks[i + 1].bits) + SumTargets(blocks, i + 1)

\* the retarget that answers with the PoW limit when it has too few blocks
LwmaOfBlocks_fallback(blocks, T, pow_limit) ==
    IF Len(blocks) < LWMA_AVERAGING_WINDOW + 1 THEN pow_limit
    ELSE Min(((SumTargets(blocks, 1) \div LWMA_AVERAGING_WINDOW)
                * SumWeightedSolvetimes(blocks, 1, blocks[1].timestamp, T))
               \div ((LWMA_AVERAGING_WINDOW * (LWMA_AVERAGING_WINDOW + 1) * T) \div 2),
             pow_limit)

\* from the length test on: blocks is same_algo_blocks, oldest first
LwmaOfBlocks(blocks, T, pow_limit) ==
    IF Len(blocks) < LWMA_AVERAGING_WINDOW + 1 THEN NotEnoughHeaders
    ELSE Min(((SumTargets(blocks, 1) \div LWMA_AVERAGING_WINDOW)
                * SumWeightedSolvetimes(blocks, 1, blocks[1].timestamp, T))
               \div ((LWMA_AVERAGING_WINDOW * (LWMA_AVERAGING_WINDOW + 1) * T) \div 2),
             pow_limit)

LwmaSearchLimit(H) == Min(H - 1, LWMA_AVERAGING_WINDOW * LWMA_SEARCH_FACTOR)

LwmaT(H) == POW_TARGET_SPACING * (IF H >= AuxPowActivationHeight THEN 2 ELSE 1)

LwmaPowLimit(current_algo) == IF current_algo = "scrypt" THEN SCRYPT_LIMIT ELSE MEOWPOW_LIMIT

get_target_lwma_multi_algo(H, chain, stored) ==
    IF H \notin DOMAIN chain THEN NotEnoughHeaders
    ELSE LwmaOfBlocks(
           Reverse(CollectSameAlgo(stored, chain, get_block_algo(chain[H], H), H - 1,
                                   Max(-1, H - 1 - LwmaSearchLimit(H) - 1) + 1, << >>)),
           LwmaT(H), LwmaPowLimit(get_block_algo(chain[H], H)))

\* get_target for a height above the tip that is neither a sentinel nor in a
\* reset window, at or above AuxPowActivationHeight
get_target_above_tip(H, chain, stored) == get_target_lwma_multi_algo(H, chain, stored)

\* can_connect around its call of get_target: the exception goes on to the
\* caller, any other exception gives False, a target goes to verify_header
can_connect_target(target) ==
    IF target = NotEnoughHeaders THEN "raised NotEnoughHeaders"
    ELSE IF target = TargetRaised THEN "false"
    ELSE "verify_header"

\* the candidate's height: four above the activation height, so that the walk
\* crosses it
LwmaHeight == AuxPowActivationHeight + 4

\* the heights the walk can read
AncestorHeights == (LwmaHeight - 1 - LwmaSearchLimit(LwmaHeight))..(LwmaHeight - 1)

\* <<bits, timestamp>> of the stored headers
BitsAndTimes == {<<1, 0>>, <<2, 5>>, <<1, 20>>, <<2, 20>>}

BlockOptions ==
    {NoBlock, UnreadableBlock}
    \cup {Block(b8, p[1], p[2]) : b8 \in BOOLEAN, p \in BitsAndTimes}

\* get_target(H, chain) over the stored headers: chain holds the candidate,
\* as can_connect passes it, or nothing
LwmaInputs ==
    {[op |-> "candidate", H |-> LwmaHeight,
      chain |-> [h \in {LwmaHeight} |-> Block(b8, 1, 20)],
      stored |-> st, ret |-> 0, before |-> 0] :
        b8 \in BOOLEAN, st \in [AncestorHeights -> BlockOptions]}
    \cup {[op |-> "candidate", H |-> LwmaHeight, chain |-> << >>,
           stored |-> [h \in AncestorHeights |-> Block(b8, 1, 0)],
           ret |-> 0, before |-> 0] : b8 \in BOOLEAN}

InitLwma ==
    /\ chains = [i \in Insts |-> IF i = 1 THEN MainChain ELSE NoChain]
    /\ files = [q \in {MainPath} |-> Zeros(max_checkpoint + 1)]
    /\ blockchains = [k \in {GENESIS} |-> 1]
    /\ cache = InitialCache
    /\ pc = Idle
    /\ last \in LwmaInputs

\* get_target(H, chain)
GetTargetLwma ==
    /\ last.op = "candidate"
    /\ last' = [last EXCEPT !.op = "get_target",
                            !.ret = get_target_above_tip(last.H, last.chain, last.stored)]
    /\ UNCHANGED <<chains, files, blockchains, cache, pc>>

\* can_connect(header) up to its call of verify_header
CanConnectLwma ==
    /\ last.op = "candidate"
    /\ last.H \in DOMAIN last.chain
    /\ last' = [last EXCEPT !.op = "can_connect",
                  !.ret = can_connect_target(
                            get_target_above_tip(last.H, last.chain, last.stored))]
    /\ UNCHANGED <<chains, files, blockchains, cache, pc>>

\* the stored headers with other bits and timestamp at height h
StoredWith(stored, h, p) ==
    [stored EXCEPT ![h] = Block(stored[h].version_bit8, p[1], p[2])]

\* get_target(H, chain) once more, after the bits and the timestamp of an
\* ancestor of the other algorithm have changed
GetTargetAgain ==
    /\ last.op = "get_target"
    /\ last.ret >= 0
    /\ \E h \in AncestorHeights, p \in BitsAndTimes :
         /\ last.stored[h].kind = "header"
         /\ get_block_algo(last.stored[h], h) # get_block_algo(last.chain[last.H], last.H)
         /\ StoredWith(last.stored, h, p) # last.stored
         /\ last' = [last EXCEPT !.op = "get_target_again",
                       !.stored = StoredWith(last.stored, h, p),
                       !.before = last.ret,
                       !.ret = get_target_above_tip(last.H, last.chain,
                                                    StoredWith(last.stored, h, p))]
    /\ UNCHANGED <<chains, files, blockchains, cache, pc>>

NextLwma == GetTargetLwma \/ CanConnectLwma \/ GetTargetAgain

SpecLwma == InitLwma /\ [][NextLwma]_vars

\* the algorithm of the header at height h, by version bit 8 from the
\* activation height on
AlgoAt(blk, h) ==
    IF h >= AuxPowActivationHeight /\ blk.version_bit8 THEN "scrypt" ELSE "meowpow"

\* the ancestors the walk reaches: down to its bound, above the first height
\* that has no readable header
WalkedHeights(in) ==
    {h \in AncestorHeights : \A g \in h..(in.H - 1) : in.stored[g].kind = "header"}

SameAlgoHeights(in) ==
    {h \in WalkedHeights(in) : AlgoAt(in.stored[h], h) = AlgoAt(in.chain[in.H], in.H)}

FewerThanWindow(in) ==
    \/ in.H \notin DOMAIN in.chain
    \/ Cardinality(SameAlgoHeights(in)) < LWMA_AVERAGING_WINDOW + 1

RecentHeights(in) ==
    {h \in SameAlgoHeights(in) :
        Cardinality({g \in SameAlgoHeights(in) : g > h}) <= LWMA_AVERAGING_WINDOW}

RECURSIVE Ascending(_)
Ascending(S) ==
    IF S = {} THEN << >>
    ELSE <<CHOOSE x \in S : \A y \in S : x <= y>>
           \o Ascending(S \ {CHOOSE x \in S : \A y \in S : x <= y})

\* those ancestors, oldest first
RecentBlocks(in) ==
    [i \in 1..Cardinality(RecentHeights(in)) |-> in.stored[Ascending(RecentHeights(in))[i]]]

\* the per-algorithm spacing T: two algorithms share the chain's spacing
LWMA_T == 2 * POW_TARGET_SPACING

\* ts_i after max(ts_i, prev + 1); B[i + 1] is block i, B[1] the oldest
RECURSIVE AdjustedTs(_, _)
AdjustedTs(B, i) ==
    IF i = 0 THEN B[1].timestamp
    ELSE Max(B[i + 1].timestamp, AdjustedTs(B, i - 1) + 1)

\* solve_i = clamp(max(ts_i, prev + 1) - prev, 1, 6T)
SolveTime(B, i) ==
    Max(1, Min(AdjustedTs(B, i) - AdjustedTs(B, i - 1), 6 * LWMA_T))

RECURSIVE SumTo(_, _)
SumTo(f, n) == IF n = 0 THEN 0 ELSE f[n] + SumTo(f, n - 1)

\* min(pow_limit, floor(floor(sum of targets / N) * sum of i * solve_i / k))
LwmaReference(B, pow_limit) ==
    Min(pow_limit,
        ((SumTo([i \in 1..LWMA_AVERAGING_WINDOW |-> TargetOfBits(B[i + 1].bits)],
                LWMA_AVERAGING_WINDOW) \div LWMA_AVERAGING_WINDOW)
           * SumTo([i \in 1..LWMA_AVERAGING_WINDOW |-> i * SolveTime(B, i)],
                   LWMA_AVERAGING_WINDOW))
          \div ((LWMA_AVERAGING_WINDOW * (LWMA_AVERAGING_WINDOW + 1) * LWMA_T) \div 2))

AlgoLimit(algo) == IF algo = "scrypt" THEN SCRYPT_LIMIT ELSE MEOWPOW_LIMIT

\* C20: when the walk finds N + 1 ancestors of the candidate's algorithm, the
\* LWMA target is min(pow_limit of that algorithm, floor(floor(sum of targets
\* / N) * sum of i * solve_i / k)), k = N (N + 1) T / 2, T twice the chain's
\* spacing, solve_i = clamp(max(ts_i, prev + 1) - prev, 1, 6T), over the N + 1
\* most recent of them, oldest first; and it is the same after the bits and
\* the timestamp of an ancestor of the other algorithm have changed.
C20_LwmaFormula ==
    /\ (last.op \in {"get_target", "get_target_again"} /\ ~FewerThanWindow(last))
         => last.ret = LwmaReference(RecentBlocks(last),
                                     AlgoLimit(AlgoAt(last.chain[last.H], last.H)))
    /\ last.op = "get_target_again" => last.ret = last.before

\* a scrypt candidate's target, below the limit, was computed again after an
\* ancestor of the other algorithm between its scrypt ancestors had changed
C20_Witness ==
    /\ last.op = "get_target_again"
    /\ AlgoAt(last.chain[last.H], last.H) = "scrypt"
    /\ last.ret > 0
    /\ last.ret < SCRYPT_LIMIT
    /\ last.ret = last.before
    /\ \E h \in AncestorHeights \ SameAlgoHeights(last) :
         /\ \E g \in RecentHeights(last) : g < h
         /\ \E g \in RecentHeights(last) : g > h

\* ------------------------------------------------------------------------
\* Startup: read_blockchains, then init_headers_file_for_best_chain, on the
\* headers directory the last run left behind
\* ------------------------------------------------------------------------
\* the hash under the last checkpoint
CheckpointTip == DGW_CHECKPOINTS[NUM_DGW_CHECKPOINTS - 1][1][1]

\* headers above the checkpoints that earlier runs can have stored
HeaderA9 == ExtBytes(CheckpointTip, 1, 0)

HeaderB9 == ExtBytes(CheckpointTip, 2, 0)

HeaderA10 == ExtBytes(HashAt(HeaderA9, max_checkpoint + 1), 1, 0)

HeaderB10 == ExtBytes(HashAt(HeaderB9, max_checkpoint + 1), 1, 0)

\* names a previous header the directory does not hold
HeaderQ9 == ExtBytes(BogusHash, 1, 0)

\* at a sampled height, without the work its bits ask for
HeaderP10 == ExtBytes(HashAt(HeaderB9, max_checkpoint + 1), 1, 2)

\* what the file headers/blockchain_headers can hold at startup
MainFiles ==
    {Zeros(max_checkpoint + 1), SyncedRegion, SubSeq(SyncedRegion, 1, DGW_CHECKPOINTS_START),
     SyncedRegion \o <<HeaderA9>>, SyncedRegion \o <<HeaderQ9>>,
     SyncedRegion \o <<ZeroRecord>>}

\* fork2_<forkpoint>_<prev hash>_<first hash> files: name and content
ForkFile(forkpoint, prev_hash, cells, content) ==
    [name |-> <<forkpoint, prev_hash, HashAt(cells, forkpoint)>>, content |-> content]

ForkFiles ==
    {ForkFile(max_checkpoint + 1, CheckpointTip, HeaderB9, <<HeaderB9>>),
     ForkFile(max_checkpoint + 2, HashAt(HeaderA9, max_checkpoint + 1), HeaderA10,
              <<HeaderA10>>),
     ForkFile(max_checkpoint + 2, HashAt(HeaderB9, max_checkpoint + 1), HeaderB10,
              <<HeaderB10>>),
     ForkFile(max_checkpoint, CheckpointedHash(max_checkpoint - 1),
              CheckpointedChain[max_checkpoint], <<CheckpointedChain[max_checkpoint]>>),
     ForkFile(max_checkpoint + 1, CheckpointTip, HeaderA9, <<HeaderB9>>),
     ForkFile(max_checkpoint + 1, CheckpointTip, HeaderQ9, <<HeaderQ9>>),
     ForkFile(max_checkpoint + 2, HashAt(HeaderB9, max_checkpoint + 1), HeaderP10,
              <<HeaderP10>>),
     ForkFile(max_checkpoint + 1, CheckpointTip, ExtBytes(CheckpointTip, 2, 2), << >>)}

\* a headers directory without the main file: some fork files
Directories ==
    {[q \in {f.name : f \in forks} |-> (CHOOSE f \in forks : f.name = q).content] :
        forks \in {s \in SUBSET ForkFiles : Cardinality(s) <= MaxInst - 1}}

WithMain(dir, m) == SetFile(dir, MainPath, m)

EmptyDirectory == [q \in {} |-> << >>]

\* l = sorted(filter(...), key = lambda x: int(x.split('_')[1])): the orders
\* listdir and the stable sort can give
ForkNames(W) == DOMAIN W.files \ {MainPath}

SortedForkNames(W) ==
    {l \in [1..Cardinality(ForkNames(W)) -> ForkNames(W)] :
        /\ \A i, j \in DOMAIN l : i # j => l[i] # l[j]
        /\ \A i, j \in DOMAIN l : i < j => l[i][1] <= l[j][1]}

\* the next Blockchain object
NewInst(W) == CHOOSE n \in Insts : ~W.chains[n].live /\ \A m \in Insts : m < n => W.chains[m].live

\* read_blockchains up to the forks directory: best_chain, and the main file
\* deleted when what follows the last checkpoint does not connect
read_best_chain(W) ==
    LET W1 == update_size([W EXCEPT !.chains[1] = [MainChain EXCEPT !.size = 0],
                                    !.reg = [k \in {GENESIS} |-> 1]], 1)
        header_after_cp == read_header(W1, 1, max_checkpoint + 1)
    IN IF height(W1, 1) > max_checkpoint
          /\ (header_after_cp = None \/ can_connect(W1, 1, header_after_cp, FALSE) # "true")
       THEN update_size([W1 EXCEPT !.files = RemoveFile(W1.files, MainPath)], 1)
       ELSE W1

delete_chain(W, filename) == [W EXCEPT !.files = RemoveFile(W.files, filename)]

\* for parent in blockchains.values(): the first chain, in the order of
\* registration, that has prev_hash at forkpoint - 1 (0: none)
find_parent(W, forkpoint, prev_hash) ==
    LET found == {p \in {W.reg[k] : k \in DOMAIN W.reg} :
                     check_hash(W, p, forkpoint - 1, prev_hash)}
    IN IF found = {} THEN 0
       ELSE CHOOSE p \in found : \A q \in found : p <= q

\* instantiate_chain that registers a fork without asking its parent to
\* connect the first header
instantiate_chain_unconnected(W, filename) ==
    LET forkpoint == filename[1]
        prev_hash == filename[2]
        first_hash == filename[3]
        parent == find_parent(W, forkpoint, prev_hash)
        n == NewInst(W)
        b == [live |-> TRUE, forkpoint |-> forkpoint, parent |-> parent,
              fhash |-> first_hash, phash |-> prev_hash, size |-> 0]
        W1 == update_size([W EXCEPT !.chains[n] = b], n)
        h == read_header(W1, n, forkpoint)
    IN IF forkpoint <= max_checkpoint THEN delete_chain(W, filename)
       ELSE IF parent = 0 THEN delete_chain(W, filename)
       ELSE IF first_hash # hash_header(h) THEN delete_chain(W, filename)
       ELSE Register(W1, n)

\* instantiate_chain(filename)
instantiate_chain(W, filename) ==
    LET forkpoint == filename[1]
        prev_hash == filename[2]
        first_hash == filename[3]
        parent == find_parent(W, forkpoint, prev_hash)
        n == NewInst(W)
        b == [live |-> TRUE, forkpoint |-> forkpoint, parent |-> parent,
              fhash |-> first_hash, phash |-> prev_hash, size |-> 0]
        W1 == update_size([W EXCEPT !.chains[n] = b], n)
        h == read_header(W1, n, forkpoint)
    IN IF forkpoint <= max_checkpoint THEN delete_chain(W, filename)
       ELSE IF parent = 0 THEN delete_chain(W, filename)
       ELSE IF first_hash # hash_header(h) THEN delete_chain(W, filename)
       ELSE IF can_connect(W1, parent, h, FALSE) # "true" THEN delete_chain(W, filename)
       ELSE Register(W1, n)

RECURSIVE instantiate_chains(_, _)
instantiate_chains(W, l) ==
    IF l = << >> THEN W
    ELSE instantiate_chains(instantiate_chain(W, Head(l)), Tail(l))

\* read_blockchains() with the listing l of the forks directory
read_blockchains(W, l) == instantiate_chains(read_best_chain(W), l)

\* init_headers_file_for_best_chain with a file one record short
init_headers_file_short(W) ==
    LET b == get_best_chain(W)
        length == max_checkpoint
    IN IF ~FileExists(W, path(W, b)) \/ FileSize(W, path(W, b)) < length
       THEN update_size([W EXCEPT !.files = SetFile(W.files, path(W, b), Zeros(length))], b)
       ELSE update_size(W, b)

\* init_headers_file_for_best_chain(): open(filename, 'wb') empties the
\* file, the seek and the one byte written make it length zero bytes
init_headers_file_for_best_chain(W) ==
    LET b == get_best_chain(W)
        length == max_checkpoint + 1
    IN IF ~FileExists(W, path(W, b)) \/ FileSize(W, path(W, b)) < length
       THEN update_size([W EXCEPT !.files = SetFile(W.files, path(W, b), Zeros(length))], b)
       ELSE update_size(W, b)

header_at_tip(W, c) == read_header(W, c, height(W, c))

\* is_tip_stale(): aged says whether the tip's timestamp is more than
\* STALE_DELAY before the clock
is_tip_stale(W, c, aged) ==
    IF header_at_tip(W, c) = None THEN TRUE ELSE aged

NotStarted == [Idle EXCEPT !.at = "start"]

HalfStarted == [Idle EXCEPT !.at = "read_blockchains"]

InitStartup ==
    /\ chains = [i \in Insts |-> NoChain]
    /\ files \in Directories \cup {WithMain(d, m) : d \in Directories, m \in MainFiles}
    /\ blockchains = << >>
    /\ cache = InitialCache
    /\ pc = NotStarted
    /\ last = [op |-> "none", c |-> 0, start |-> 0, n |-> 0, ret |-> "none",
               nops |-> 0, swaps |-> 0, dir |-> files]

ReadBlockchains ==
    /\ pc = NotStarted
    /\ \E l \in SortedForkNames(World) : Apply(read_blockchains(World, l))
    /\ pc' = HalfStarted
    /\ last' = [last EXCEPT !.op = "read_blockchains"]

InitHeadersFile ==
    /\ pc = HalfStarted
    /\ Apply(init_headers_file_for_best_chain(World))
    /\ pc' = Idle
    /\ last' = [last EXCEPT !.op = "init_headers_file_for_best_chain"]

NextStartup == ReadBlockchains \/ InitHeadersFile

SpecStartup == InitStartup /\ [][NextStartup]_vars

StartedFromEmpty ==
    last.op = "init_headers_file_for_best_chain" /\ last.dir = EmptyDirectory

\* C21 as stated: after startup from an empty headers directory the main
\* chain has height() == 0, get_hash(0) == GENESIS and a stale tip.
C21_GenesisOnlyAsStated ==
    StartedFromEmpty =>
        /\ height(World, get_best_chain(World)) = 0
        /\ get_hash(World, get_best_chain(World), 0) = GENESIS
        /\ \A aged \in BOOLEAN : is_tip_stale(World, get_best_chain(World), aged)

\* C21: after startup from an empty headers directory the main chain's
\* file is the zeroed checkpoint region, so that height() == max_checkpoint,
\* get_hash(0) == GENESIS and is_tip_stale() is True.
C21_GenesisOnlyStart ==
    StartedFromEmpty =>
        /\ height(World, get_best_chain(World)) = max_checkpoint
        /\ get_hash(World, get_best_chain(World), 0) = GENESIS
        /\ \A aged \in BOOLEAN : is_tip_stale(World, get_best_chain(World), aged)

C21_Witness ==
    /\ StartedFromEmpty
    /\ DOMAIN blockchains = {GENESIS}
    /\ files[MainPath] = Zeros(max_checkpoint + 1)
    /\ height(World, get_best_chain(World)) = max_checkpoint
    /\ is_tip_stale(World, get_best_chain(World), FALSE)

RegisteredForks == {c \in Registered : chains[c].parent # 0}

FirstHeader(c) == read_header(World, c, chains[c].forkpoint)

\* what read_blockchains checked of a fork it registered
RecoveredChain(c) ==
    /\ chains[c].forkpoint > max_checkpoint
    /\ FirstHeader(c) \notin {None, RaisedHeader}
    /\ hash_header(FirstHeader(c)) = get_id(World, c)
    /\ chains[c].parent \in Live
    /\ chains[c].parent < c
    /\ chains[chains[c].parent].forkpoint < chains[c].forkpoint
    /\ check_hash(World, chains[c].parent, chains[c].forkpoint - 1, chains[c].phash)
    /\ can_connect(World, chains[c].parent, FirstHeader(c), FALSE) = "true"

\* a fork file that cannot pass: below the checkpoints, without a first
\* record, with a first record of another hash or of another previous hash,
\* or continuing no chain that is registered
FailsRecovery(dir, name) ==
    \/ name[1] <= max_checkpoint
    \/ dir[name] = << >>
    \/ HashAt(dir[name][1], name[1]) # name[3]
    \/ dir[name][1][1].prev # name[2]
    \/ \A p \in Registered : ~check_hash(World, p, name[1] - 1, name[2])

KeptFork(name) ==
    /\ name \in DOMAIN files
    /\ name[3] \in DOMAIN blockchains
    /\ blockchains[name[3]] \in RegisteredForks
    /\ path(World, blockchains[name[3]]) = name

DeletedFork(name) ==
    /\ name \notin DOMAIN files
    /\ \A c \in Registered : path(World, c) # name

\* C24: after read_blockchains every registered non-main chain is above the
\* checkpoints, starts with the record its id names and has an earlier
\* parent of lower forkpoint that holds its prev hash and connects its first
\* header; every fork file is either such a chain's file or is deleted and
\* unregistered, and those that fail a condition are deleted.
C24_StartupRecovery ==
    last.op = "read_blockchains" =>
        /\ \A c \in RegisteredForks : RecoveredChain(c)
        /\ \A name \in DOMAIN last.dir \ {MainPath} :
             /\ KeptFork(name) \/ DeletedFork(name)
             /\ FailsRecovery(last.dir, name) => DeletedFork(name)

C24_Witness ==
    /\ last.op = "read_blockchains"
    /\ \E c \in RegisteredForks : RecoveredChain(c)
    /\ \E name \in DOMAIN last.dir \ {MainPath} :
         /\ name[1] > max_checkpoint
         /\ last.dir[name] # << >>
         /\ FailsRecovery(last.dir, name)
         /\ DeletedFork(name)

\* ------------------------------------------------------------------------
\* can_connect on its own: a caller hands a header to a chain that startup
\* has instantiated
\* ------------------------------------------------------------------------
ConnectCells(h, prev) ==
    IF h = 0 THEN {CheckpointedChain[0], LegBytes(FALSE, prev, 1, 0)}
    ELSE {ExtBytes(prev, b, n) : b \in {1, 2}, n \in {0, 2}}
         \cup (IF h <= max_checkpoint THEN {CheckpointedChain[h]} ELSE {})
         \cup (IF h >= AuxPowActivationHeight THEN {LegBytes(TRUE, prev, 2, 0)} ELSE {})

PrevOptions(W, c, h) ==
    {BogusHash} \cup (IF IsErr(get_hash(W, c, h - 1)) THEN {} ELSE {get_hash(W, c, h - 1)})

\* headers at the tip of c, one below and one above it, and no header
ConnectInputs(W, c) ==
    {None} \cup
    UNION {{deserialize_header(cells, h) :
               cells \in UNION {ConnectCells(h, p) : p \in PrevOptions(W, c, h)}} :
           h \in {g \in {height(W, c), height(W, c) + 1, height(W, c) + 2} :
                     g >= 0 /\ g <= MaxHeight}}

CanConnect ==
    /\ pc \in {HalfStarted, Idle}
    /\ last.op # "can_connect"
    /\ \E c \in Live : \E header \in ConnectInputs(World, c) : \E check_height \in BOOLEAN :
         last' = [op |-> "can_connect", c |-> c, start |-> 0, n |-> 0,
                  ret |-> can_connect(World, c, header, check_height),
                  nops |-> 0, swaps |-> 0, dir |-> last.dir,
                  header |-> header, check_height |-> check_height, pre |-> Snapshot]
    /\ UNCHANGED <<chains, files, blockchains, cache, pc>>

NextConnect == ReadBlockchains \/ InitHeadersFile \/ CanConnect

\* directories with at most one fork file
InitConnect ==
    /\ InitStartup
    /\ Cardinality(ForkNames(World)) <= 1

SpecConnect == InitConnect /\ [][NextConnect]_vars

\* what a header that connects at the tip of c has passed
ConnectsAtTip(c, header) ==
    /\ header # None
    /\ header.block_height = height(World, c) + 1
    /\ header_prev(header) = get_hash(World, c, header.block_height - 1)
    /\ header.block_height <= max_checkpoint =>
         /\ get_target(World, c, header.block_height, << >>) >= 0
         /\ verify_header(header, get_hash(World, c, header.block_height - 1),
                          get_target(World, c, header.block_height, << >>),
                          NoExpected, FALSE) = "ok"

\* C22: can_connect(header) with check_height=True returns True only for a
\* header at height() + 1 that names get_hash(height - 1) and, up to
\* max_checkpoint, passes verify_header against get_target; it returns False
\* for None; it changes no file, size, metadata or registry entry.
C22_CanConnect ==
    last.op = "can_connect" =>
        /\ last.check_height /\ last.ret = "true" => ConnectsAtTip(last.c, last.header)
        /\ last.header = None => last.ret = "false"
        /\ Snapshot = last.pre

C22_Witness ==
    /\ last.op = "can_connect"
    /\ last.check_height
    /\ last.ret = "true"
    /\ last.header.block_height \in 1..max_checkpoint
    /\ ConnectsAtTip(last.c, last.header)

\* ------------------------------------------------------------------------
\* fork(header), step by step
\* ------------------------------------------------------------------------
FreeInst == CHOOSE i \in Insts : ~chains[i].live

ForkCandidates(parent, h) ==
    {deserialize_header(cells, h) :
        cells \in UNION {HeaderOptions(h, p) :
                            p \in {BogusHash} \cup
                                  (IF IsErr(get_hash(World, parent, h - 1)) THEN {}
                                   ELSE {get_hash(World, parent, h - 1)})}}

\* the step of Fork that is parent.fork(header)
ForkCall(parent, header) ==
    /\ pc.at = "idle"
    /\ last.nops < MaxOps
    /\ \E i \in Insts : ~chains[i].live
    /\ parent \in Live
    /\ header.block_height <= height(World, parent) + 1
    /\ ForkHeader(parent, FreeInst, header.block_height, header)

ForkRefused(parent, header) ==
    \/ can_connect(World, parent, header, FALSE) # "true"
    \/ header.block_height <= max_checkpoint

ForkRaisedUnchanged ==
    /\ pc'.at = "idle"
    /\ last'.op = "fork"
    /\ last'.ret = "raised"
    /\ files' = files
    /\ blockchains' = blockchains

\* the chain n as fork has made it when it calls swap_with_parent
ForkMade(parent, n, header) ==
    /\ pc'.at = "swap" /\ pc'.op = "fork" /\ pc'.sc = n
    /\ chains'[n].live
    /\ chains'[n].forkpoint = header.block_height
    /\ chains'[n].parent = parent
    /\ chains'[n].phash = get_hash(World, parent, header.block_height - 1)
    /\ chains'[n].fhash = hash_header(header)
    /\ chains'[n].size = 1
    /\ <<header.block_height, chains'[n].phash, chains'[n].fhash>> \in DOMAIN files'
    /\ Len(files'[<<header.block_height, chains'[n].phash, chains'[n].fhash>>]) = 1
    /\ read_header(World, n, header.block_height)' = header

ForkCallDoes(parent, header) ==
    IF ForkRefused(parent, header) THEN ForkRaisedUnchanged
    ELSE ForkMade(parent, FreeInst, header)

\* the step in which fork returns or raises after swap_with_parent
ForkEnds == pc.at = "swap" /\ pc.op = "fork" /\ pc'.at = "idle"

\* fork returns the chain it made, registered under its id; pc.pre is the
\* state fork was called in
ForkReturnsMade ==
    /\ last'.ret = "ok"
    /\ chains'[pc.sc].live
    /\ chains'[pc.sc].forkpoint = pc.start
    /\ chains'[pc.sc].parent = pc.c
    /\ chains'[pc.sc].phash = get_hash(pc.pre, pc.c, pc.start - 1)
    /\ chains'[pc.sc].size = 1
    /\ path(World, pc.sc)' \in DOMAIN files'
    /\ Len(files'[path(World, pc.sc)']) = 1
    /\ read_header(World, pc.sc, pc.start)' \notin {None, RaisedHeader}
    /\ hash_header(read_header(World, pc.sc, pc.start))' = chains'[pc.sc].fhash
    /\ chains'[pc.sc].fhash \in DOMAIN blockchains'
    /\ blockchains'[chains'[pc.sc].fhash] = pc.sc

\* C23: fork raises and changes nothing when the parent cannot
\* connect the header or the header is within the checkpoints; otherwise it
\* returns a registered chain with forkpoint == header.block_height, parent
\* P, prev hash P.get_hash(forkpoint - 1) and the header as its one record.
C23_Fork ==
    [][/\ \A parent \in Insts, h \in max_checkpoint..MaxHeight :
            \A header \in ForkCandidates(parent, h) :
               ForkCall(parent, header) => ForkCallDoes(parent, header)
       /\ ForkEnds => ForkReturnsMade]_vars

\* ------------------------------------------------------------------------
\* The order of verify_header's checks
\* ------------------------------------------------------------------------
FailsLinkage(i) == i.prev_hash # header_prev(i.header)

FailsBits(i) == ~i.skip_bits_check /\ BitsOfTarget(i.target) # header_bits(i.header)

FailsExpected(i) == i.expected = "other"

FailsWork(i) == block_hash_as_num(hash_header(i.header)) > i.target

\* the failure reported when work is compared before the expected hash
FirstFailureWorkFirst(i) ==
    IF FailsLinkage(i) THEN "prev hash mismatch"
    ELSE IF MergedMined(i.header)
    THEN (IF FailsExpected(i) THEN "hash mismatch" ELSE "ok")
    ELSE IF ~PowChecked(i.header) THEN "ok"
    ELSE IF FailsBits(i) THEN "bits mismatch"
    ELSE IF FailsWork(i) THEN "insufficient proof of work"
    ELSE IF FailsExpected(i) THEN "hash mismatch"
    ELSE "ok"

\* the failure reported when the expected hash is compared before work
FirstFailure(i) ==
    IF FailsLinkage(i) THEN "prev hash mismatch"
    ELSE IF MergedMined(i.header)
    THEN (IF FailsExpected(i) THEN "hash mismatch" ELSE "ok")
    ELSE IF ~PowChecked(i.header) THEN "ok"
    ELSE IF FailsBits(i) THEN "bits mismatch"
    ELSE IF FailsExpected(i) THEN "hash mismatch"
    ELSE IF FailsWork(i) THEN "insufficient proof of work"
    ELSE "ok"

\* C28 as stated: the checks run in the order linkage, merged-mining
\* short-circuit, sampling, bits, proof of work, expected hash, and the first
\* failure in this order is the one reported.
C28_CheckOrderAsStated ==
    last.op = "verify_header" => last.ret = FirstFailureWorkFirst(last)

\* C28: the checks run in the order linkage, merged-mining short-circuit,
\* sampling, bits, expected hash, proof of work, and the first failure in
\* this order is the one reported: a header that is not merged-mined, has the
\* right prev hash and bits, too little work and another hash than the
\* expected one is rejected with 'hash mismatches with expected'.
C28_CheckOrder ==
    last.op = "verify_header" => last.ret = FirstFailure(last)

C28_Witness ==
    /\ last.op = "verify_header"
    /\ ~MergedMined(last.header)
    /\ PowChecked(last.header)
    /\ ~FailsLinkage(last)
    /\ ~FailsBits(last) /\ ~last.skip_bits_check
    /\ FailsWork(last)
    /\ FailsExpected(last)
    /\ last.ret = "hash mismatch"

\* ------------------------------------------------------------------------
\* A swap that raises
\* ------------------------------------------------------------------------
\* the step in which _swap_with_parent of pc.sc raises
SwapRaises == pc.at = "swap" /\ swap_with_parent_once(World, pc.sc).err

\* what _swap_with_parent has left when it raised
RaisedIn == swap_with_parent_once(World, pc.sc).W

SwapFields(W, c) ==
    [parent |-> W.chains[c].parent, forkpoint |-> W.chains[c].forkpoint,
     fhash |-> W.chains[c].fhash, phash |-> W.chains[c].phash]

\* C30: when _swap_with_parent raises, both files, both chains' parent,
\* forkpoint, forkpoint hash and prev hash, and the registry are as they
\* were before the call.
C30_SwapAtomic ==
    SwapRaises =>
        /\ RaisedIn.files = files
        /\ RaisedIn.reg = blockchains
        /\ SwapFields(RaisedIn, pc.sc) = SwapFields(World, pc.sc)
        /\ SwapFields(RaisedIn, chains[pc.sc].parent) = SwapFields(World, chains[pc.sc].parent)

\* ------------------------------------------------------------------------
\* Threads and locks: each chain's RLock (lock i of chain i) and
\* blockchains_lock (lock 0). A with-block or a with_lock method pushes its
\* lock on the thread's stack of held locks and pops it on the way out; a
\* step that calls a with_lock method of another chain and returns needs
\* that chain's lock free for the step.
\* ------------------------------------------------------------------------
NumThreads == 2

MaxThreadOps == 1

Threads == 1..NumThreads

blockchains_lock == 0

NoLocals ==
    [me |-> NoChain, par |-> NoChain, parent |-> 0, my_data |-> << >>,
     parent_data |-> << >>, child_old_name |-> MainPath]

ThreadIdle ==
    [op |-> "none", at |-> "idle", c |-> 0, cur |-> 0, h |-> 0, header |-> None,
     held |-> << >>, cnt |-> 0, loc |-> NoLocals, done |-> 0]

Holds(t, l) == \E i \in DOMAIN pc[t].held : pc[t].held[i] = l

\* an RLock can be taken when no other thread owns it
CanTake(t, l) == \A u \in Threads \ {t} : ~Holds(u, l)

\* the locks the next step of thread t takes
Wants(t) ==
    IF pc[t].at \in {"save_header", "read_header", "get_parent_heights"} THEN {pc[t].c}
    ELSE IF pc[t].at \in {"swap_with_parent", "gph_registry", "get_direct_children"}
    THEN {blockchains_lock}
    ELSE IF pc[t].at \in {"_swap_with_parent", "swap_read"}
    THEN {chains[pc[t].c].parent} \ {0}
    ELSE IF pc[t].at \in {"swap_parent_write", "swap_replace"}
    THEN {pc[t].loc.parent}
    ELSE IF pc[t].at = "rh_read" /\ pc[t].h < chains[pc[t].cur].forkpoint
    THEN {chains[pc[t].cur].parent} \ {0}
    ELSE {}

Runnable(t) == \A l \in Wants(t) : CanTake(t, l)

Go(t, rec) == pc' = [pc EXCEPT ![t] = rec]

Push(t, ls) == [pc[t] EXCEPT !.held = pc[t].held \o ls]

\* the operation of thread t returns or raises: every with-block is left
Leave(t) == Go(t, [ThreadIdle EXCEPT !.done = pc[t].done + 1])

TipHeaders(c) ==
    IF IsErr(get_hash(World, c, height(World, c))) THEN {}
    ELSE {deserialize_header(ExtBytes(get_hash(World, c, height(World, c)), b, 0),
                             height(World, c) + 1) : b \in {1, 2}}

\* a thread calls save_header, read_header, get_parent_heights or
\* get_direct_children of a registered chain
Call(t) ==
    /\ pc[t].at = "idle"
    /\ pc[t].done < MaxThreadOps
    /\ \E c \in Registered :
         \/ \E header \in TipHeaders(c) :
              Go(t, [pc[t] EXCEPT !.op = "save_header", !.at = "save_header", !.c = c,
                                  !.header = header])
         \/ \E h \in {max_checkpoint, max_checkpoint + 1} :
              Go(t, [pc[t] EXCEPT !.op = "read_header", !.at = "read_header", !.c = c,
                                  !.cur = c, !.h = h])
         \/ Go(t, [pc[t] EXCEPT !.op = "get_parent_heights", !.at = "get_parent_heights",
                                !.c = c])
         \/ Go(t, [pc[t] EXCEPT !.op = "get_direct_children",
                                !.at = "get_direct_children", !.c = c])
    /\ UNCHANGED <<chains, files, blockchains, cache, last>>

\* @with_lock of save_header
SaveHeaderLock(t) ==
    /\ pc[t].at = "save_header"
    /\ Runnable(t)
    /\ Go(t, [Push(t, <<pc[t].c>>) EXCEPT !.at = "sh_write"])
    /\ UNCHANGED <<chains, files, blockchains, cache, last>>

\* save_header up to its call of swap_with_parent
SaveHeaderWrite(t) ==
    /\ pc[t].at = "sh_write"
    /\ LET sw == save_header_write(World, pc[t].c, pc[t].header)
       IN /\ Apply(sw.W)
          /\ IF sw.err THEN Leave(t)
             ELSE Go(t, [pc[t] EXCEPT !.at = "swap_with_parent"])
    /\ UNCHANGED last

\* with self.lock, blockchains_lock: of swap_with_parent
SwapLock(t) ==
    /\ pc[t].at = "swap_with_parent"
    /\ Runnable(t)
    /\ Go(t, [Push(t, <<pc[t].c, blockchains_lock>>) EXCEPT !.at = "_swap_with_parent",
                                                            !.cnt = 0])
    /\ UNCHANGED <<chains, files, blockchains, cache, last>>

\* _swap_with_parent: parent is None, or the call of parent.get_chainwork()
SwapEnter(t) ==
    /\ pc[t].at = "_swap_with_parent"
    /\ Runnable(t)
    /\ IF chains[pc[t].c].parent = 0 THEN Leave(t)
       ELSE Go(t, [Push(t, <<chains[pc[t].c].parent>>) EXCEPT !.at = "swap_compare"])
    /\ UNCHANGED <<chains, files, blockchains, cache, last>>

\* parent.get_chainwork() returns and is compared with self.get_chainwork()
SwapCompareWork(t) ==
    /\ pc[t].at = "swap_compare"
    /\ LET c == pc[t].c
           pw == get_chainwork(World, chains[c].parent)
           cw == get_chainwork([World EXCEPT !.cache = pw.cache], c)
           popped == [pc[t] EXCEPT !.held = SubSeq(pc[t].held, 1, Len(pc[t].held) - 1)]
       IN /\ cache' = (IF pw.ok THEN cw.cache ELSE pw.cache)
          /\ IF ~pw.ok \/ ~cw.ok \/ pw.work >= cw.work THEN Leave(t)
             ELSE Go(t, [popped EXCEPT !.at = "swap_read"])
    /\ UNCHANGED <<chains, files, blockchains, last>>

\* parent.height(), both paths and both reads
SwapRead(t) ==
    /\ pc[t].at = "swap_read"
    /\ LET c == pc[t].c
           parent == chains[c].parent
           me == chains[c]
           par == chains[parent]
       IN /\ Runnable(t)
          /\ IF ~FileExists(World, path(World, c)) \/ ~FileExists(World, path(World, parent))
                \/ ~(me.forkpoint > par.forkpoint)
             THEN Leave(t)
             ELSE Go(t, [pc[t] EXCEPT
                           !.at = "swap_child_write",
                           !.loc = [me |-> me, par |-> par, parent |-> parent,
                                    my_data |-> files[path(World, c)],
                                    parent_data |->
                                        ReadBranch(files[path(World, parent)],
                                                   me.forkpoint - par.forkpoint,
                                                   height(World, parent) - me.forkpoint + 1),
                                    child_old_name |-> path(World, c)]])
    /\ UNCHANGED <<chains, files, blockchains, cache, last>>

\* self.write(parent_data, 0)
SwapChildWrite(t) ==
    /\ pc[t].at = "swap_child_write"
    /\ Apply(write(World, pc[t].c, pc[t].loc.parent_data, 0, TRUE).W)
    /\ IF write(World, pc[t].c, pc[t].loc.parent_data, 0, TRUE).ok
       THEN Go(t, [pc[t] EXCEPT !.at = "swap_parent_write"])
       ELSE Leave(t)
    /\ UNCHANGED last

\* parent.write(my_data, (forkpoint - parent.forkpoint)*HEADER_SIZE)
SwapParentWrite(t) ==
    /\ pc[t].at = "swap_parent_write"
    /\ Runnable(t)
    /\ LET w == write(World, pc[t].loc.parent, pc[t].loc.my_data,
                      pc[t].loc.me.forkpoint - pc[t].loc.par.forkpoint, TRUE)
       IN /\ Apply(w.W)
          /\ IF w.ok THEN Go(t, [pc[t] EXCEPT !.at = "swap_params"]) ELSE Leave(t)
    /\ UNCHANGED last

\* the four exchanges of parent, forkpoint, _forkpoint_hash and _prev_hash;
\* the third raises on an empty parent_data
SwapExchange(t) ==
    /\ pc[t].at = "swap_params"
    /\ LET l == pc[t].loc
           W1 == SwapParams(World, pc[t].c, l.parent, l.me, l.par)
       IN IF Len(l.parent_data) = 0
          THEN Apply(W1) /\ Leave(t)
          ELSE /\ Apply(SwapHashes(W1, pc[t].c, l.parent, l.me, l.par,
                                   hash_header(deserialize_header(l.parent_data[1],
                                                                  l.me.forkpoint))))
               /\ Go(t, [pc[t] EXCEPT !.at = "swap_replace"])
    /\ UNCHANGED last

\* os.replace(child_old_name, parent.path()) and both update_size()
SwapReplace(t) ==
    /\ pc[t].at = "swap_replace"
    /\ Runnable(t)
    /\ IF FileExists(World, pc[t].loc.child_old_name)
       THEN /\ Apply(SwapFiles(World, pc[t].c, pc[t].loc.parent, pc[t].loc.child_old_name))
            /\ Go(t, [pc[t] EXCEPT !.at = "swap_registry"])
       ELSE /\ Apply(World)
            /\ Leave(t)
    /\ UNCHANGED last

\* the registry update, the count, and the former siblings; then the loop
SwapRegister(t) ==
    /\ pc[t].at = "swap_registry"
    /\ LET l == pc[t].loc
           W1 == SwapRegistry(World, pc[t].c, l.parent, l.me.fhash, l.par.fhash)
       IN IF pc[t].cnt + 1 > Cardinality(DOMAIN W1.reg)
          THEN Apply(W1) /\ Leave(t)
          ELSE /\ Apply(Reparent(W1, pc[t].c, l.parent))
               /\ Go(t, [pc[t] EXCEPT !.at = "_swap_with_parent", !.cnt = pc[t].cnt + 1,
                                      !.loc = NoLocals])
    /\ UNCHANGED last

\* @with_lock of read_header
ReadHeaderLock(t) ==
    /\ pc[t].at = "read_header"
    /\ Runnable(t)
    /\ Go(t, [Push(t, <<pc[t].c>>) EXCEPT !.at = "rh_read"])
    /\ UNCHANGED <<chains, files, blockchains, cache, last>>

\* read_header's body: below the forkpoint the call of
\* self.parent.read_header(height), else the read of the file
ReadHeaderBody(t) ==
    /\ pc[t].at = "rh_read"
    /\ Runnable(t)
    /\ IF pc[t].h < chains[pc[t].cur].forkpoint /\ chains[pc[t].cur].parent # 0
       THEN Go(t, [Push(t, <<chains[pc[t].cur].parent>>) EXCEPT
                      !.cur = chains[pc[t].cur].parent])
       ELSE Leave(t)
    /\ UNCHANGED <<chains, files, blockchains, cache, last>>

\* with self.lock, blockchains_lock: of get_parent_heights, first lock
ParentHeightsLock(t) ==
    /\ pc[t].at = "get_parent_heights"
    /\ Runnable(t)
    /\ Go(t, [Push(t, <<pc[t].c>>) EXCEPT !.at = "gph_registry"])
    /\ UNCHANGED <<chains, files, blockchains, cache, last>>

\* second lock, the walk up the parents, and the return
ParentHeightsWalk(t) ==
    /\ pc[t].at = "gph_registry"
    /\ Runnable(t)
    /\ Leave(t)
    /\ UNCHANGED <<chains, files, blockchains, cache, last>>

\* with blockchains_lock: of get_direct_children, the filter and the return
DirectChildren(t) ==
    /\ pc[t].at = "get_direct_children"
    /\ Runnable(t)
    /\ Leave(t)
    /\ UNCHANGED <<chains, files, blockchains, cache, last>>

ForkChain == [live |-> TRUE, forkpoint |-> max_checkpoint + 1, parent |-> 1,
              fhash |-> HashAt(HeaderB9, max_checkpoint + 1), phash |-> CheckpointTip,
              size |-> 1]

\* a main chain one header above the checkpoints and a lighter fork of it
InitLocks ==
    /\ chains = [i \in Insts |-> IF i = 1 THEN [MainChain EXCEPT !.size = max_checkpoint + 2]
                                 ELSE IF i = 2 THEN ForkChain ELSE NoChain]
    /\ files = SetFile([q \in {MainPath} |-> SyncedRegion \o <<HeaderA9>>],
                       <<ForkChain.forkpoint, ForkChain.phash, ForkChain.fhash>>,
                       <<HeaderB9>>)
    /\ blockchains = [k \in {GENESIS, ForkChain.fhash} |-> IF k = GENESIS THEN 1 ELSE 2]
    /\ cache = InitialCache
    /\ pc = [t \in Threads |-> ThreadIdle]
    /\ last = [op |-> "none", c |-> 0, start |-> 0, n |-> 0, ret |-> "none",
               nops |-> 0, swaps |-> 0]

NextLocks ==
    \E t \in Threads :
        \/ Call(t)
        \/ SaveHeaderLock(t)
        \/ SaveHeaderWrite(t)
        \/ SwapLock(t)
        \/ SwapEnter(t)
        \/ SwapCompareWork(t)
        \/ SwapRead(t)
        \/ SwapChildWrite(t)
        \/ SwapParentWrite(t)
        \/ SwapExchange(t)
        \/ SwapReplace(t)
        \/ SwapRegister(t)
        \/ ReadHeaderLock(t)
        \/ ReadHeaderBody(t)
        \/ ParentHeightsLock(t)
        \/ ParentHeightsWalk(t)
        \/ DirectChildren(t)

SpecLocks == InitLocks /\ [][NextLocks]_vars

\* C25: no thread takes a chain's lock that it does not hold already while it
\* holds blockchains_lock: on every thread's stack of held locks, a chain's
\* lock above blockchains_lock is also below it.
C25_LockOrder ==
    \A t \in Threads : \A i, j \in DOMAIN pc[t].held :
        (i < j /\ pc[t].held[i] = blockchains_lock /\ pc[t].held[j] # blockchains_lock)
            => \E k \in 1..(i - 1) : pc[t].held[k] = pc[t].held[j]

\* what a holder of chain c's lock can see of c
ChainView(c) ==
    [forkpoint |-> chains[c].forkpoint, parent |-> chains[c].parent,
     fhash |-> chains[c].fhash, phash |-> chains[c].phash, path |-> path(World, c),
     file |-> IF FileExists(World, path(World, c)) THEN <<files[path(World, c)]>>
              ELSE << >>]

Moves(t) == pc'[t] # pc[t]

\* C26: while a thread holds the lock of a chain, no step of another thread
\* changes that chain's forkpoint, parent, forkpoint hash, prev hash, path or
\* file contents.
C26_NoMidSwapState ==
    [][\A t \in Threads, u \in Threads, c \in Insts :
          (t # u /\ Moves(t) /\ Holds(u, c)) => ChainView(c)' = ChainView(c)]_vars

\* each thread of S waits for a lock that another thread of S holds
WaitForEachOther(S) ==
    /\ S # {}
    /\ \A t \in S : \E l \in Wants(t) : \E u \in S \ {t} : Holds(u, l)

\* C27: no state is reachable in which each of some threads waits for a chain
\* lock or blockchains_lock held by another of them.
C27_DeadlockFree == \A S \in SUBSET Threads : ~WaitForEachOther(S)

\* ------------------------------------------------------------------------
\* The loop of swap_with_parent
\* ------------------------------------------------------------------------
\* the turn of the loop that chain pc.sc is about to take
ThisTurn == swap_with_parent_once(World, pc.sc)

\* cnt += 1; if cnt > len(blockchains): raise
RaisesTooMany(r) == r.swapped /\ pc.cnt + 1 > Cardinality(DOMAIN r.W.reg)

\* the loop breaks: _swap_with_parent returned False
Breaks(r) == ~r.swapped /\ ~r.err

\* chain c has no parent, or its parent's chain work is at least its own
ParentNotLighter(W, c) ==
    \/ W.chains[c].parent = 0
    \/ LET pw == get_chainwork(W, W.chains[c].parent)
           cw == get_chainwork([W EXCEPT !.cache = pw.cache], c)
       IN pw.ok /\ cw.ok /\ pw.work >= cw.work

\* save_header or connect_chunk above the checkpoints has returned from the
\* swap_with_parent of its own chain
ReturnedFromSwap ==
    /\ pc.at = "idle"
    /\ \/ last.op = "save_header" /\ last.ret = "ok"
       \/ last.op = "connect_chunk" /\ last.ret = "true" /\ last.start > max_checkpoint

\* C29: swap_with_parent ends: while it runs it has swapped at most
\* len(blockchains) times, no turn raises 'swapping fork with parent too many
\* times', and when it returns the chain has no parent or a parent whose
\* chain work is at least its own.
C29_SwapTerminates ==
    /\ pc.at = "swap" =>
          /\ pc.cnt <= Cardinality(DOMAIN blockchains)
          /\ ~RaisesTooMany(ThisTurn)
          /\ Breaks(ThisTurn) => ParentNotLighter(ThisTurn.W, pc.sc)
    /\ ReturnedFromSwap => ParentNotLighter(World, last.c)

\* the loop breaks after two swaps in one call
C29_Witness ==
    /\ pc.at = "swap"
    /\ pc.cnt = 2
    /\ Breaks(ThisTurn)

\* ------------------------------------------------------------------------
\* The forest of chains
\* ------------------------------------------------------------------------
\* the chain reached from c by following at most k parent links
RECURSIVE Ancestor(_, _, _)
Ancestor(W, c, k) ==
    IF k = 0 \/ W.chains[c].parent = 0 THEN c
    ELSE Ancestor(W, W.chains[c].parent, k - 1)

\* chain c forks off its parent above the parent's forkpoint, at a height the
\* parent has a header below, and names that header
ForksOffParent(W, c) ==
    LET p == W.chains[c].parent
    IN /\ W.chains[p].forkpoint < W.chains[c].forkpoint
       /\ height(W, p) >= W.chains[c].forkpoint - 1
       /\ get_hash(W, p, W.chains[c].forkpoint - 1) = W.chains[c].phash

\* the parent links from c end at the main chain
ReachesMain(W, c) ==
    /\ GENESIS \in DOMAIN W.reg
    /\ Ancestor(W, c, MaxInst) = get_best_chain(W)
    /\ W.chains[get_best_chain(W)].parent = 0

\* C31: after any sequence of fork, save_header, connect_chunk and
\* swap_with_parent every registered chain with a parent forks off it
\* (parent's forkpoint below its own, parent's height at least its forkpoint
\* - 1, parent's hash at forkpoint - 1 equal to its prev hash), and the
\* parent links from every registered chain reach the main chain without a
\* cycle.
C31_Forest ==
    pc.at = "idle" =>
       \A c \in Registered :
          /\ chains[c].parent # 0 => ForksOffParent(World, c)
          /\ ReachesMain(World, c)

\* ------------------------------------------------------------------------
\* The program with fork, save_header and the swaps they start
\* ------------------------------------------------------------------------
NextForks == SaveHeader \/ Fork \/ SwapStep

SpecForks == Init /\ [][NextForks]_vars

\* the id and the prev hash of chain c are the hashes of the headers at its
\* forkpoint and below it, and the file they name exists
IdentityMatches(W, c) ==
    /\ W.chains[c].fhash = get_hash(W, c, W.chains[c].forkpoint)
    /\ W.chains[c].phash = get_hash(W, c, W.chains[c].forkpoint - 1)
    /\ FileExists(W, path(W, c))

\* C32: in every state reached by fork, save_header and swaps each
\* registered chain's _forkpoint_hash is the hash of the record stored at its
\* forkpoint, its _prev_hash the hash at forkpoint - 1, and the file named
\* after them holds its records.
C32_IdentityMatchesContent ==
    pc.at = "idle" => \A c \in Registered : IdentityMatches(World, c)

\* ------------------------------------------------------------------------
\* get_chainwork in several threads: _CHAINWORK_CACHE is a module global,
\* and a thread holds only the lock of the chain it asks
\* ------------------------------------------------------------------------
MaxCacheCalls == 2

HeaderA11 == ExtBytes(HashAt(HeaderA10, max_checkpoint + 2), 1, 0)

HeaderA12 == ExtBytes(HashAt(HeaderA11, max_checkpoint + 3), 1, 0)

HeaderB11 == ExtBytes(HashAt(HeaderB10, max_checkpoint + 2), 1, 0)

\* another header on top of HeaderA11
HeaderC12 == ExtBytes(HashAt(HeaderA11, max_checkpoint + 3), 2, 0)

\* a fork of one header at the main chain's tip
TipFork == [live |-> TRUE, forkpoint |-> max_checkpoint + 4, parent |-> 1,
            fhash |-> HashAt(HeaderC12, max_checkpoint + 4),
            phash |-> HashAt(HeaderA11, max_checkpoint + 3), size |-> 1]

\* a fork of three headers right above the checkpoints
DeepFork == [ForkChain EXCEPT !.size = 3]

CacheIdle == [at |-> "idle", c |-> 0, h |-> 0, last_retarget |-> 0, cached_height |-> 0,
              running_total |-> 0, done |-> 0]

\* a main chain of four headers above the checkpoints, whose checkpoint
\* region is synced or still preallocated, and two forks of it
InitCache ==
    /\ chains = [i \in Insts |-> IF i = 1 THEN [MainChain EXCEPT !.size = max_checkpoint + 5]
                                 ELSE IF i = 2 THEN TipFork ELSE DeepFork]
    /\ \E region \in {SyncedRegion, Zeros(max_checkpoint + 1)} :
         files = SetFile(SetFile([q \in {MainPath} |->
                                     region \o <<HeaderA9, HeaderA10, HeaderA11, HeaderA12>>],
                                 <<TipFork.forkpoint, TipFork.phash, TipFork.fhash>>,
                                 <<HeaderC12>>),
                         <<DeepFork.forkpoint, DeepFork.phash, DeepFork.fhash>>,
                         <<HeaderB9, HeaderB10, HeaderB11>>)
    /\ blockchains = [k \in {GENESIS, TipFork.fhash, DeepFork.fhash} |->
                         IF k = GENESIS THEN 1 ELSE IF k = TipFork.fhash THEN 2 ELSE 3]
    /\ cache = InitialCache
    /\ pc = [t \in Threads |-> CacheIdle]
    /\ last = [op |-> "none", c |-> 0, start |-> 0, n |-> 0, ret |-> "none",
               nops |-> 0, swaps |-> 0]

\* get_chainwork(height) is called: last_retarget and the start of the search
GetChainworkCall(t) ==
    /\ pc[t].at = "idle"
    /\ pc[t].done < MaxCacheCalls
    /\ \E c \in Live, h \in 0..MaxHeight :
         /\ h <= height(World, c)
         /\ pc' = [pc EXCEPT ![t] = [at |-> "search", c |-> c, h |-> h,
                     last_retarget |-> (h \div CHUNK_SIZE) * CHUNK_SIZE - 1,
                     cached_height |-> (h \div CHUNK_SIZE) * CHUNK_SIZE - 1,
                     running_total |-> 0, done |-> pc[t].done + 1]]
    /\ UNCHANGED <<chains, files, blockchains, cache, last>>

GetChainworkRaise(t) == [pc EXCEPT ![t] = [CacheIdle EXCEPT !.done = pc[t].done]]

\* one test of the first loop, and the read of the total when it ends
SearchTurn(t, key) ==
    IF IsErr(key) THEN pc' = GetChainworkRaise(t)
    ELSE IF key \in DOMAIN cache
    THEN pc' = [pc EXCEPT ![t].at = "fill", ![t].running_total = cache[key]]
    ELSE IF pc[t].cached_height <= -1 THEN pc' = GetChainworkRaise(t)
    ELSE pc' = [pc EXCEPT ![t].cached_height = pc[t].cached_height - CHUNK_SIZE]

GetChainworkSearch(t) ==
    /\ pc[t].at = "search"
    /\ SearchTurn(t, get_hash(World, pc[t].c, pc[t].cached_height))
    /\ UNCHANGED <<chains, files, blockchains, cache, last>>

\* the total stored before the chunk's work is added to it
FilledTotal_before(running_total, work_in_chunk) == running_total

\* the total stored for the chunk that ends at the new cached_height
FilledTotal(running_total, work_in_chunk) == running_total + work_in_chunk

\* one turn of the second loop
FillTurn(t, work_in_chunk, key) ==
    IF work_in_chunk < 0 \/ IsErr(key)
    THEN pc' = GetChainworkRaise(t) /\ cache' = cache
    ELSE /\ cache' = CachePut(World, key, FilledTotal(pc[t].running_total, work_in_chunk)).cache
         /\ pc' = [pc EXCEPT ![t].cached_height = pc[t].cached_height + CHUNK_SIZE,
                             ![t].running_total = pc[t].running_total + work_in_chunk]

GetChainworkFill(t) ==
    /\ pc[t].at = "fill"
    /\ pc[t].cached_height < pc[t].last_retarget
    /\ FillTurn(t, WorkOfRange(World, pc[t].c, pc[t].cached_height + 1,
                               pc[t].cached_height + CHUNK_SIZE),
                get_hash(World, pc[t].c, pc[t].cached_height + CHUNK_SIZE))
    /\ UNCHANGED <<chains, files, blockchains, last>>

\* the work of the last partial chunk, and the return
GetChainworkReturn(t) ==
    /\ pc[t].at = "fill"
    /\ pc[t].cached_height >= pc[t].last_retarget
    /\ pc' = GetChainworkRaise(t)
    /\ UNCHANGED <<chains, files, blockchains, cache, last>>

NextCache ==
    \E t \in Threads :
        \/ GetChainworkCall(t)
        \/ GetChainworkSearch(t)
        \/ GetChainworkFill(t)
        \/ GetChainworkReturn(t)

SpecCache == InitCache /\ [][NextCache]_vars

SizeMatchesFile(W, c) ==
    /\ FileExists(W, path(W, c))
    /\ size(W, c) = FileSize(W, path(W, c))

\* every height of chain c's own file reads as a record or an empty slot
ReadsOwnRecords(W, c) ==
    \A h \in 0..MaxHeight :
       (W.chains[c].forkpoint <= h /\ h <= height(W, c)) =>
          read_header(W, c, h) # RaisedHeader

\* C34: whenever no operation is in progress, the file of every live chain
\* holds whole records and the chain's cached _size is their number, after
\* any sequence of fork (also of a header whose hash is already a chain's
\* id), save_header, connect_chunk and swaps; read_header(h) finds a record
\* for every h from the forkpoint to height().
C34_CachedSize ==
    pc.at = "idle" =>
       \A c \in Live : SizeMatchesFile(World, c) /\ ReadsOwnRecords(World, c)

\* C35: from the end of init_headers_file_for_best_chain on, in every state
\* reached by connect_chunk, save_header, fork and swaps, get_best_chain()
\* has size() >= max_checkpoint() + 1, and no write leaves its file, or the
\* main headers file, with fewer than max_checkpoint() + 1 records.
C35_CheckpointHorizon ==
    /\ GENESIS \in DOMAIN blockchains
    /\ size(World, get_best_chain(World)) >= max_checkpoint + 1
    /\ FileSize(World, MainPath) >= max_checkpoint + 1
    /\ FileExists(World, path(World, get_best_chain(World))) =>
          FileSize(World, path(World, get_best_chain(World))) >= max_checkpoint + 1

\* connect_chunk has stored a chunk that lies inside the checkpoint region
C35_Witness ==
    /\ pc.at = "idle"
    /\ last.op = "connect_chunk"
    /\ last.ret = "true"
    /\ last.n >= 1
    /\ last.start + last.n <= max_checkpoint
    /\ size(World, get_best_chain(World)) >= max_checkpoint + 1

\* ------------------------------------------------------------------------
\* What save_chunk stores against what verify_chunk verified
\* ------------------------------------------------------------------------
\* the wire bytes of the k-th header (from 0) of a chunk that verify_chunk
\* splits from offset p at height s
RECURSIVE WireHeader(_, _, _, _)
WireHeader(data, p, s, k) ==
    IF k = 0 THEN SubSeq(data, p + 1, p + header_len_at(data, p, s))
    ELSE WireHeader(data, p + header_len_at(data, p, s), s + 1, k - 1)

\* connect_chunk(start, data) on chain c gets through verify_chunk and the
\* write and read-back of save_chunk
ChunkAccepted(W, c, start, data) ==
    /\ verify_chunk(W, c, start, data) = "ok"
    /\ save_chunk_target(W, c, start) # 0
    /\ ~save_chunk_write(W, save_chunk_target(W, c, start), start, data).err

\* every header of the chunk reads back as the decoding of its wire bytes
StoredAsVerified(W, c, start, data) ==
    \A k \in 0..(CountHeaders(data, 0, start) - 1) :
       /\ read_header(W, c, start + k) = deserialize_header(WireHeader(data, 0, start, k),
                                                           start + k)
       /\ serialize_header(read_header(W, c, start + k)) = WireHeader(data, 0, start, k)
       /\ get_hash(W, c, start + k) = HashAt(WireHeader(data, 0, start, k), start + k)

\* the record save_chunk stores for a header's wire bytes
StoredRecord(w) == IF Len(w) = LEGACY_HEADER_SIZE THEN w \o <<ZeroCell>> ELSE w

\* every header of the chunk reads back as the decoding of its stored
\* record, with the hash of its wire bytes, and from KawpowActivationHeight
\* on as the decoding of the wire bytes themselves
StoredAsPadded(W, c, start, data) ==
    \A k \in 0..(CountHeaders(data, 0, start) - 1) :
       /\ get_hash(W, c, start + k) = HashAt(WireHeader(data, 0, start, k), start + k)
       /\ read_header(W, c, start + k)
             = deserialize_header(StoredRecord(WireHeader(data, 0, start, k)), start + k)
       /\ start + k >= KawpowActivationHeight =>
             /\ read_header(W, c, start + k)
                   = deserialize_header(WireHeader(data, 0, start, k), start + k)
             /\ serialize_header(read_header(W, c, start + k))
                   = WireHeader(data, 0, start, k)

\* C36 as stated: for every chunk that connect_chunk accepts, read_header(h)
\* after save_chunk returns, for every header of the chunk, the fields of
\* that header's wire bytes, with the same hash.
C36_StoredEqualsVerifiedAsStated ==
    (pc.at = "idle" /\ last.nops < MaxOps) =>
       \A c \in Live, start \in 0..MaxHeight :
          \A data \in ChunkInputs(World, c, start) :
             ChunkAccepted(World, c, start, data) =>
                StoredAsVerified(
                   save_chunk_write(World, save_chunk_target(World, c, start), start, data).W,
                   c, start, data)

\* C36: for every chunk that connect_chunk accepts, every header of the
\* chunk reads back with the hash of its wire bytes; at heights from
\* KawpowActivationHeight on read_header(h) returns the fields of the wire
\* bytes (a merged-mined header its 80 bytes), below it the fields of the
\* 120-byte record the 80 wire bytes were padded to.
C36_StoredEqualsVerified ==
    (pc.at = "idle" /\ last.nops < MaxOps) =>
       \A c \in Live, start \in 0..MaxHeight :
          \A data \in ChunkInputs(World, c, start) :
             ChunkAccepted(World, c, start, data) =>
                StoredAsPadded(
                   save_chunk_write(World, save_chunk_target(World, c, start), start, data).W,
                   c, start, data)

\* connect_chunk has stored a chunk with a merged-mined header, which reads
\* back as 80 bytes
C36_Witness ==
    /\ pc.at = "idle"
    /\ last.op = "connect_chunk"
    /\ last.ret = "true"
    /\ \E h \in AuxPowActivationHeight..MaxHeight :
          /\ last.start <= h
          /\ h < last.start + last.n
          /\ read_header(World, last.c, h) \notin {None, RaisedHeader}
          /\ Len(serialize_header(read_header(World, last.c, h))) = LEGACY_HEADER_SIZE

\* ------------------------------------------------------------------------
\* save_chunk on a fork, for a chunk that starts below the forkpoint
\* ------------------------------------------------------------------------
\* the chunks offered: up to the forkpoint and one header beyond, linked to
\* the parent's header below start
ForkChunkInputs(W, c, start) ==
    UNION {Chunks(get_hash(W, c, start - 1), start, k, TRUE) :
              k \in (W.chains[c].forkpoint - start + 1)..(MaxHeight - start + 1)}

\* the main chain with four headers above the checkpoints, a fork at its tip
\* and a fork right above the checkpoints; a chunk for the fork at the tip
InitForkChunk ==
    /\ chains = [i \in Insts |-> IF i = 1 THEN [MainChain EXCEPT !.size = max_checkpoint + 5]
                                 ELSE IF i = 2 THEN TipFork ELSE DeepFork]
    /\ files = SetFile(SetFile([q \in {MainPath} |->
                                   SyncedRegion \o <<HeaderA9, HeaderA10, HeaderA11, HeaderA12>>],
                               <<TipFork.forkpoint, TipFork.phash, TipFork.fhash>>,
                               <<HeaderC12>>),
                       <<DeepFork.forkpoint, DeepFork.phash, DeepFork.fhash>>,
                       <<HeaderB9, HeaderB10, HeaderB11>>)
    /\ blockchains = [k \in {GENESIS, TipFork.fhash, DeepFork.fhash} |->
                         IF k = GENESIS THEN 1 ELSE IF k = TipFork.fhash THEN 2 ELSE 3]
    /\ cache = InitialCache
    /\ pc = "called"
    /\ \E start \in (max_checkpoint + 1)..(TipFork.forkpoint - 1) :
         \E data \in ForkChunkInputs(World, 2, start) :
            last = [c |-> 2, start |-> start, data |-> data, err |-> FALSE]

\* save_chunk(start, data) on the fork, up to its call of swap_with_parent
SaveChunkOnFork ==
    /\ pc = "called"
    /\ Apply(save_chunk_write(World, last.c, last.start, last.data).W)
    /\ pc' = "saved"
    /\ last' = [last EXCEPT !.err = save_chunk_write(World, last.c, last.start, last.data).err]

SpecForkChunk == InitForkChunk /\ [][SaveChunkOnFork]_vars

\* the records of the chunk's headers from height at on
RECURSIVE RecordsFrom(_, _, _, _)
RecordsFrom(data, start, k, at) ==
    IF k >= CountHeaders(data, 0, start) THEN << >>
    ELSE (IF start + k >= at THEN <<StoredRecord(WireHeader(data, 0, start, k))>> ELSE << >>)
         \o RecordsFrom(data, start, k + 1, at)

\* C37: save_chunk(start, chunk) on a fork with max_checkpoint < start <
\* forkpoint stores exactly the chunk's headers of heights >= forkpoint,
\* record k of the file holding the header of height forkpoint + k, whatever
\* mix of 80-byte and 120-byte wire records lies below the forkpoint.
C37_ForkChunkStored ==
    pc = "saved" =>
       /\ FileExists(World, path(World, last.c))
       /\ files[path(World, last.c)]
             = RecordsFrom(last.data, last.start, 0, chains[last.c].forkpoint)

\* ------------------------------------------------------------------------
\* The DGWv3 retarget of the single-algorithm era
\* ------------------------------------------------------------------------
\* PastBlocksMin = PastBlocksMax = DGW_PASTBLOCKS: the walk is followed here
\* over three ancestors, so that the running average has a first, a middle
\* and a last step
PastBlocksMax == 3

\* nTargetTimespan = CountBlocks * 60
DGW_BLOCK_SECONDS == 60

\* convbignum's result when the exponent is below 3 and the division leaves a
\* remainder: a float that is not an integer
FractionalTarget == -4

\* if a < 0x8000: a *= 256
ConvMantissa(a) == IF a < SIGN_BIT \div BYTE THEN a * BYTE ELSE a

\* a * pow(2, 8 * (bits // MM - 3)): pow gives a float for a negative exponent
ConvScaled(a, e) ==
    IF e >= 3 THEN a * Pow(BYTE, e - 3)
    ELSE IF a % Pow(BYTE, 3 - e) = 0 THEN a \div Pow(BYTE, 3 - e)
    ELSE FractionalTarget

convbignum(bits) ==
    ConvScaled(ConvMantissa(bits % MANTISSA_SPACE), bits \div MANTISSA_SPACE)

\* the inner get_block_reading_from_height of get_target_dgwv3: chain.get,
\* then read_header; NoBlock where it raises NotEnoughHeaders
DgwBlockReading(stored, chain, h) ==
    IF h \in DOMAIN chain THEN chain[h]
    ELSE IF h \in DOMAIN stored THEN stored[h]
    ELSE NoBlock

\* PastDifficultyAverage after the block that makes CountBlocks blocks
DgwAverage(CountBlocks, PastDifficultyAveragePrev, bnNum) ==
    IF CountBlocks = 1 THEN bnNum
    ELSE ((PastDifficultyAveragePrev * CountBlocks) + bnNum) \div (CountBlocks + 1)

\* nActualTimespan after the block
DgwTimespan(nActualTimespan, LastBlockTime, timestamp) ==
    IF LastBlockTime > 0 THEN nActualTimespan + (LastBlockTime - timestamp)
    ELSE nActualTimespan

\* the statements after the loop, without the two clamps
DgwRetarget_unclamped(bnNew, nActualTimespan, nTargetTimespan) ==
    Min((bnNew * nActualTimespan) \div nTargetTimespan, MAX_TARGET)

\* the statements after the loop
DgwRetarget(bnNew, nActualTimespan, nTargetTimespan) ==
    Min((bnNew * Min(Max(nActualTimespan, nTargetTimespan \div 3), nTargetTimespan * 3))
          \div nTargetTimespan,
        MAX_TARGET)

\* the loop from the increment of CountBlocks on; BlockReading is the block
\* read before the iteration
RECURSIVE DgwLoop(_, _, _, _, _, _, _, _)
DgwLoop(stored, chain, h, CountBlocks, BlockReading, avg, nActualTimespan, LastBlockTime) ==
    IF DgwBlockReading(stored, chain, (h - 1) - CountBlocks) = NoBlock
    THEN NotEnoughHeaders
    ELSE IF CountBlocks = PastBlocksMax
    THEN DgwRetarget(DgwAverage(CountBlocks, avg, convbignum(BlockReading.bits)),
                     DgwTimespan(nActualTimespan, LastBlockTime, BlockReading.timestamp),
                     CountBlocks * DGW_BLOCK_SECONDS)
    ELSE DgwLoop(stored, chain, h, CountBlocks + 1,
                 DgwBlockReading(stored, chain, (h - 1) - CountBlocks),
                 DgwAverage(CountBlocks, avg, convbignum(BlockReading.bits)),
                 DgwTimespan(nActualTimespan, LastBlockTime, BlockReading.timestamp),
                 BlockReading.timestamp)

get_target_dgwv3(h, chain, stored) ==
    IF DgwBlockReading(stored, chain, h - 1) = NoBlock THEN NotEnoughHeaders
    ELSE DgwLoop(stored, chain, h, 1, DgwBlockReading(stored, chain, h - 1), 0, 0, 0)

\* the candidate's height: below AuxPowActivationHeight, above every
\* ancestor the walk reads
Dgwv3Height == PastBlocksMax + 3

\* the ancestors the result is stated over, and the one below them
DgwWindow == (Dgwv3Height - PastBlocksMax)..(Dgwv3Height - 1)

BelowWindow == Dgwv3Height - PastBlocksMax - 1

\* bits with exponent 3: mantissa 1 (below 0x8000), 0x8000 and 0xc000
DgwBits == {3 * MANTISSA_SPACE + 1,
            3 * MANTISSA_SPACE + SIGN_BIT \div BYTE,
            3 * MANTISSA_SPACE + SIGN_BIT \div BYTE + SIGN_BIT \div (2 * BYTE)}

DgwTimes == {0, 100, 200, 700}

DgwBlockOptions == {NoBlock} \cup {Block(FALSE, b, t) : b \in DgwBits, t \in DgwTimes}

\* get_target_dgwv3(height, chain) over the stored headers, with nothing
\* passed or the newest ancestor passed in chain; and convbignum(bits) for
\* every bits value of the format
Dgwv3Inputs ==
    {[op |-> "height", H |-> Dgwv3Height, chain |-> ch, stored |-> st, arg |-> 0, ret |-> 0] :
        ch \in {<< >>} \cup {[h \in {Dgwv3Height - 1} |-> Block(FALSE, b, 200)] : b \in DgwBits},
        st \in {s \in [BelowWindow..(Dgwv3Height - 1) -> DgwBlockOptions] :
                  s[BelowWindow] \in {NoBlock, Block(FALSE, 3 * MANTISSA_SPACE + 1, 700)}}}
    \cup {[op |-> "bits", H |-> 0, chain |-> << >>, stored |-> << >>, arg |-> b, ret |-> 0] :
            b \in 0..(UINT32_SPACE - 1)}

InitDgwv3 ==
    /\ chains = [i \in Insts |-> IF i = 1 THEN MainChain ELSE NoChain]
    /\ files = [q \in {MainPath} |-> Zeros(max_checkpoint + 1)]
    /\ blockchains = [k \in {GENESIS} |-> 1]
    /\ cache = InitialCache
    /\ pc = Idle
    /\ last \in Dgwv3Inputs

\* get_target_dgwv3(height, chain)
GetTargetDgwv3 ==
    /\ last.op = "height"
    /\ last' = [last EXCEPT !.op = "get_target_dgwv3",
                            !.ret = get_target_dgwv3(last.H, last.chain, last.stored)]
    /\ UNCHANGED <<chains, files, blockchains, cache, pc>>

\* convbignum(bits)
ConvBignum ==
    /\ last.op = "bits"
    /\ last' = [last EXCEPT !.op = "convbignum", !.ret = convbignum(last.arg)]
    /\ UNCHANGED <<chains, files, blockchains, cache, pc>>

NextDgwv3 == GetTargetDgwv3 \/ ConvBignum

SpecDgwv3 == InitDgwv3 /\ [][NextDgwv3]_vars

\* the block the walk takes for the k-th ancestor, newest first
DgwAncestor(k) == DgwBlockReading(last.stored, last.chain, last.H - k)

WindowAvailable == \A k \in 1..PastBlocksMax : DgwAncestor(k) # NoBlock

\* avg_k = (avg_{k-1} * k + target_k) / (k + 1), avg_1 = target_1
RECURSIVE AvgOver(_, _)
AvgOver(targets, k) ==
    IF k = 1 THEN targets[1]
    ELSE (AvgOver(targets, k - 1) * k + targets[k]) \div (k + 1)

\* the sum of the successive timestamp differences
RECURSIVE SumOfDiffs(_, _)
SumOfDiffs(times, k) ==
    IF k = 0 THEN 0 ELSE (times[k] - times[k + 1]) + SumOfDiffs(times, k - 1)

\* the same sum without the differences whose newer timestamp is not positive
RECURSIVE SumOfCountedDiffs(_, _)
SumOfCountedDiffs(times, k) ==
    IF k = 0 THEN 0
    ELSE (IF times[k] > 0 THEN times[k] - times[k + 1] ELSE 0)
         + SumOfCountedDiffs(times, k - 1)

Clamped(x, lo, hi) == IF x < lo THEN lo ELSE IF x > hi THEN hi ELSE x

DgwTargetTimespan == PastBlocksMax * DGW_BLOCK_SECONDS

DgwFormula(targets, timespan) ==
    Min(MAX_TARGET,
        (AvgOver(targets, PastBlocksMax)
           * Clamped(timespan, DgwTargetTimespan \div 3, DgwTargetTimespan * 3))
          \div DgwTargetTimespan)

WindowTimes == [k \in 1..PastBlocksMax |-> DgwAncestor(k).timestamp]

\* the decoding the walk applies: the three low bytes, sign bit included,
\* moved up a byte when below 0x8000, shifted by the exponent
WalkDecoding(bits) ==
    IF bits % MANTISSA_SPACE < SIGN_BIT \div BYTE
    THEN BYTE * ShiftedMantissa(bits \div MANTISSA_SPACE, bits % MANTISSA_SPACE)
    ELSE ShiftedMantissa(bits \div MANTISSA_SPACE, bits % MANTISSA_SPACE)

\* bits values on which the walk's decoding is the standard one: accepted by
\* bits_to_target, exponent at least 3 or nothing shifted out, and a mantissa
\* of zero or of at least 0x8000
DecodesAsStandard(bits) ==
    /\ bits_to_target(bits) >= 0
    /\ ~SignOf(bits)
    /\ MantissaOf(bits) = 0 \/ MantissaOf(bits) >= SIGN_BIT \div BYTE
    /\ ExponentOf(bits) < 3 => MantissaOf(bits) % Pow(BYTE, 3 - ExponentOf(bits)) = 0

\* C38 as stated: the result is min(MAX_TARGET, avg * clamp(actualTimespan) /
\* targetTimespan) with avg the running average of bits_to_target of the
\* ancestors' bits and actualTimespan the sum of the successive timestamp
\* differences, and the decoding is bits_to_target for every bits value.
C38_DgwResultAsStated ==
    /\ (last.op = "get_target_dgwv3" /\ last.ret >= 0) =>
          last.ret = DgwFormula([k \in 1..PastBlocksMax |-> bits_to_target(DgwAncestor(k).bits)],
                                SumOfDiffs(WindowTimes, PastBlocksMax - 1))
    /\ last.op = "convbignum" => last.ret = bits_to_target(last.arg)

\* C38: the result is min(MAX_TARGET, avg * clamp(actualTimespan, T/3, 3T) / T)
\* with T = window * 60, avg_k = (avg_{k-1} * k + target_k) / (k + 1) over the
\* ancestors from height-1 downward, avg_1 = target_1, and truncating
\* divisions; actualTimespan is the sum of the successive timestamp
\* differences whose newer timestamp is positive; target(bits) is the three
\* low bytes of bits, multiplied by 256 when below 0x8000, shifted by the
\* exponent byte, which is bits_to_target(bits) when bits_to_target accepts
\* bits, the sign bit is clear, the mantissa is zero or at least 0x8000 and
\* nothing is shifted out, and 256 times it for a smaller non-zero mantissa
\* with exponent at least 3.
C38_DgwResult ==
    /\ (last.op = "get_target_dgwv3" /\ last.ret >= 0) =>
          /\ last.ret = DgwFormula([k \in 1..PastBlocksMax |-> WalkDecoding(DgwAncestor(k).bits)],
                                   SumOfCountedDiffs(WindowTimes, PastBlocksMax - 1))
          /\ (\A k \in 1..PastBlocksMax : DecodesAsStandard(DgwAncestor(k).bits)
                                           /\ (k < PastBlocksMax => WindowTimes[k] > 0)) =>
                last.ret = DgwFormula([k \in 1..PastBlocksMax |->
                                         bits_to_target(DgwAncestor(k).bits)],
                                      SumOfDiffs(WindowTimes, PastBlocksMax - 1))
    /\ last.op = "convbignum" =>
          /\ DecodesAsStandard(last.arg) => last.ret = bits_to_target(last.arg)
          /\ (ExponentOf(last.arg) >= 3 /\ bits_to_target(last.arg) >= 0 /\ ~SignOf(last.arg)
              /\ MantissaOf(last.arg) < SIGN_BIT \div BYTE) =>
                last.ret = BYTE * bits_to_target(last.arg)
          /\ ExponentOf(last.arg) >= 3 => last.ret = WalkDecoding(last.arg)

\* three canonical ancestors with positive timestamps gave a target below
\* MAX_TARGET from a timespan clamped to a third of the target timespan
C38_Witness ==
    /\ last.op = "get_target_dgwv3"
    /\ \A k \in 1..PastBlocksMax : DgwAncestor(k) # NoBlock
    /\ \A k \in 1..PastBlocksMax : DecodesAsStandard(DgwAncestor(k).bits)
    /\ \A k \in 1..PastBlocksMax : WindowTimes[k] > 0
    /\ SumOfDiffs(WindowTimes, PastBlocksMax - 1) < DgwTargetTimespan \div 3
    /\ last.ret > 0
    /\ last.ret < MAX_TARGET

\* C39: get_target_dgwv3(height) returns a target whenever the headers at
\* heights height-window .. height-1 are available in the passed chain or the
\* store, and raises NotEnoughHeaders exactly when one of them is not.
C39_DgwAvailability ==
    last.op = "get_target_dgwv3" =>
      /\ WindowAvailable => last.ret >= 0
      /\ last.ret = NotEnoughHeaders <=> ~WindowAvailable

\* ------------------------------------------------------------------------
\* The shared thread pools (thread_pools.py) and one event loop
\* ------------------------------------------------------------------------
\* ThreadPools objects that are constructed
MaxPools == 2

PoolIds == 1..MaxPools

\* the values func returns
FuncResults == {1, 2}

\* the loop's default executor: not set, the one asyncio makes when
\* run_in_executor(None, ...) finds none, or the client executor of a
\* ThreadPools object
NoExecutor == [kind |-> "none", of |-> 0]

AsyncioExecutor == [kind |-> "asyncio", of |-> 0]

WalletExecutor(p) == [kind |-> "wallet", of |-> p]

ClientExecutor(p) == [kind |-> "client", of |-> p]

\* pc holds the module and the objects: shared is _shared_pools (0 is None),
\* made the number of ThreadPools objects, has_loop[p] whether p._loop is
\* set, down[p] whether p's executors are shut down, default the loop's
\* default executor
NoPools ==
    [shared |-> 0, made |-> 0,
     has_loop |-> [p \in PoolIds |-> FALSE],
     down |-> [p \in PoolIds |-> FALSE],
     default |-> NoExecutor]

NoCall == [op |-> "none", func |-> 0, executor |-> NoExecutor, outcome |-> "none", ret |-> 0]

InitPools ==
    /\ chains = [i \in Insts |-> IF i = 1 THEN MainChain ELSE NoChain]
    /\ files = [q \in {MainPath} |-> Zeros(max_checkpoint + 1)]
    /\ blockchains = [k \in {GENESIS} |-> 1]
    /\ cache = InitialCache
    /\ pc = NoPools
    /\ last = NoCall

Called(op) == [NoCall EXCEPT !.op = op, !.outcome = "returned"]

\* ThreadPools(): two executors, _loop None
NewThreadPools ==
    /\ pc.made < MaxPools
    /\ pc' = [pc EXCEPT !.made = pc.made + 1]
    /\ last' = Called("ThreadPools")
    /\ UNCHANGED <<chains, files, blockchains, cache>>

\* pools.setup(loop)
Setup ==
    \E p \in 1..pc.made :
      /\ pc' = [pc EXCEPT !.has_loop[p] = TRUE, !.default = ClientExecutor(p)]
      /\ last' = Called("setup")
      /\ UNCHANGED <<chains, files, blockchains, cache>>

\* set_thread_pools(pools)
SetThreadPools ==
    \E p \in 1..pc.made :
      /\ pc' = [pc EXCEPT !.shared = p]
      /\ last' = Called("set_thread_pools")
      /\ UNCHANGED <<chains, files, blockchains, cache>>

\* shutdown_thread_pools(): ThreadPools.shutdown() of the shared object, then
\* _shared_pools = None
ShutdownThreadPools ==
    /\ pc' = IF pc.shared # 0
             THEN [pc EXCEPT !.down[pc.shared] = TRUE, !.shared = 0]
             ELSE pc
    /\ last' = Called("shutdown_thread_pools")
    /\ UNCHANGED <<chains, files, blockchains, cache>>

\* whether executor.submit raises 'cannot schedule new futures after shutdown'
IsShutDown(P, executor) == executor.kind \in {"wallet", "client"} /\ P.down[executor.of]

\* loop.run_in_executor(executor, func) awaited: the call record
RunInExecutor(P, op, executor, func) ==
    IF IsShutDown(P, executor)
    THEN [op |-> op, func |-> func, executor |-> executor,
          outcome |-> "RuntimeError: cannot schedule new futures after shutdown", ret |-> 0]
    ELSE [op |-> op, func |-> func, executor |-> executor, outcome |-> "returned", ret |-> func]

\* the executor run_in_executor(None, ...) takes: the default one, made when
\* there is none
DefaultExecutor(P) == IF P.default = NoExecutor THEN AsyncioExecutor ELSE P.default

\* ThreadPools.run_in_wallet_thread / run_in_client_thread of the shared
\* object
RunShared(P, op, executor, func) ==
    IF ~P.has_loop[P.shared]
    THEN [op |-> op, func |-> func, executor |-> NoExecutor,
          outcome |-> "RuntimeError: ThreadPools not initialised", ret |-> 0]
    ELSE RunInExecutor(P, op, executor, func)

\* the module-level run_in_wallet_thread(func)
run_in_wallet_thread(P, func) ==
    IF P.shared # 0
    THEN RunShared(P, "run_in_wallet_thread", WalletExecutor(P.shared), func)
    ELSE RunInExecutor(P, "run_in_wallet_thread", DefaultExecutor(P), func)

\* the module-level run_in_client_thread(func)
run_in_client_thread(P, func) ==
    IF P.shared # 0
    THEN RunShared(P, "run_in_client_thread", ClientExecutor(P.shared), func)
    ELSE RunInExecutor(P, "run_in_client_thread", DefaultExecutor(P), func)

\* run_in_executor(None, ...) leaves the executor it made as the default
AfterRun(P, call) ==
    IF call.executor = AsyncioExecutor THEN [P EXCEPT !.default = AsyncioExecutor] ELSE P

RunInWalletThread ==
    \E func \in FuncResults :
      /\ last' = run_in_wallet_thread(pc, func)
      /\ pc' = AfterRun(pc, run_in_wallet_thread(pc, func))
      /\ UNCHANGED <<chains, files, blockchains, cache>>

RunInClientThread ==
    \E func \in FuncResults :
      /\ last' = run_in_client_thread(pc, func)
      /\ pc' = AfterRun(pc, run_in_client_thread(pc, func))
      /\ UNCHANGED <<chains, files, blockchains, cache>>

NextPools ==
    \/ NewThreadPools
    \/ Setup
    \/ SetThreadPools
    \/ ShutdownThreadPools
    \/ RunInWalletThread
    \/ RunInClientThread

SpecPools == InitPools /\ [][NextPools]_vars

RunCall == last.op \in {"run_in_wallet_thread", "run_in_client_thread"}

\* C40: whatever the state of the shared pools, a module-level
\* run_in_wallet_thread(func) or run_in_client_thread(func) hands func to an
\* executor that is not shut down and returns func's result; it never raises.
C40_PoolLifecycle ==
    RunCall =>
      /\ last.outcome = "returned"
      /\ last.ret = last.func
      /\ last.executor # NoExecutor
      /\ ~IsShutDown(pc, last.executor)

====
